---- MODULE Spec2Model ----
(***************************************************************************)
(* A model of tiny_llama's TinyLlamaModel: construction, tokenizer and     *)
(* weight loading, the binary weight codec (save_model_weights /           *)
(* load_model_weights) at byte level, and the argument checks of forward.  *)
(*                                                                         *)
(* Numbers are stored in files as little-endian byte sequences.  A float   *)
(* is represented by its 4-byte image; the codec only copies such images,  *)
(* so their numeric value is never needed.  The floating-point arithmetic  *)
(* of the forward pass is not modelled: forward is modelled by its checks, *)
(* the shapes it builds and the logits entries it extracts.                *)
(***************************************************************************)
EXTENDS Integers, Sequences, FiniteSets, TLC

VARIABLES
    config,         \* TinyLlamaModel::config_
    tokenizer,      \* TinyLlamaModel::tokenizer_ (its Vocabulary)
    weights,        \* every weight tensor of the model, by tensor id
    temperature,    \* TinyLlamaModel::temperature_
    saved,          \* the file save_model_weights last wrote: [exists, bytes, cfg]
    loaded,         \* history: the well-formed file the weights were last loaded from
    tokLoaded,      \* history: a load_tokenizer call has succeeded
    weightsLoaded,  \* history: a load_model_weights call has succeeded
    pristine,       \* history: no load_model_weights call on this instance yet
    used,           \* history: the load calls this instance has had
    lastOp,         \* the last call and its outcome
    lastGen,        \* history: the last generate_text call, its inputs and its steps
    facade,         \* the TinyLlama holding the instance, if any: [wrapped, is_initialized_]
    matrix,         \* a Matrix<int> on its own: [data_, rows_, cols_]
    tensor,         \* a Tensor<int> on its own: [data_, shape_]
    disk,           \* the file Matrix::save_to_file last wrote: [exists, bytes, from]
    threads,        \* two threads, each driving an instance of its own
    call            \* the last call on a Matrix, a Tensor or a tokenizer, and its outcome

\* The objects of the library that live outside a TinyLlamaModel.
library == <<matrix, tensor, disk, threads, call>>

vars == <<config, tokenizer, weights, temperature, saved, loaded,
          tokLoaded, weightsLoaded, pristine, used, lastOp, lastGen, facade,
          matrix, tensor, disk, threads, call>>

---------------------------------------------------------------------------
(* Bytes *)

\* v as n little-endian bytes.
RECURSIVE ToBytes(_, _)
ToBytes(v, n) == IF n = 0 THEN <<>> ELSE <<v % 256>> \o ToBytes(v \div 256, n - 1)

Zeros(n) == [i \in 1..n |-> 0]

RECURSIVE Product(_)
Product(dims) == IF dims = <<>> THEN 1 ELSE Head(dims) * Product(Tail(dims))

SizeofU32 == 4
SizeofInt == 4
SizeofFloat == 4
SizeofSizeT == 8

\* 0.0f, 0.1f and 1.0f as IEEE-754 images, little-endian.
F0 == <<0, 0, 0, 0>>
F01 == <<205, 204, 204, 61>>
F1 == <<0, 0, 128, 63>>

RECURSIVE Repeat(_, _)
Repeat(bs, n) == IF n = 0 THEN <<>> ELSE bs \o Repeat(bs, n - 1)

RECURSIVE ConcatBytes4(_)
ConcatBytes4(vals) ==
    IF vals = <<>> THEN <<>> ELSE ToBytes(Head(vals), 4) \o ConcatBytes4(Tail(vals))

---------------------------------------------------------------------------
(* size_t *)

\* A size_t is kept as its eight little-endian bytes, the form it has in a
\* matrix file, so that sums and products wrap around as the machine's do.
SizeT(n) == ToBytes(n, SizeofSizeT)

\* 2^32 and 2^62
TwoTo32 == <<0, 0, 0, 0, 1, 0, 0, 0>>
TwoTo62 == <<0, 0, 0, 0, 0, 0, 0, 64>>

\* The sum of a[i] * b[k + 1 - i] for i in from..k: column k of a long multiplication.
RECURSIVE ColumnSum(_, _, _, _)
ColumnSum(a, b, k, from) ==
    IF from > k THEN 0 ELSE a[from] * b[k + 1 - from] + ColumnSum(a, b, k, from + 1)

RECURSIVE MulLimbs(_, _, _, _)
MulLimbs(a, b, k, carry) ==
    IF k > SizeofSizeT THEN <<>>
    ELSE <<(ColumnSum(a, b, k, 1) + carry) % 256>>
         \o MulLimbs(a, b, k + 1, (ColumnSum(a, b, k, 1) + carry) \div 256)

\* a * b modulo 2^64
MulSizeT(a, b) == MulLimbs(a, b, 1, 0)

RECURSIVE AddLimbs(_, _, _, _)
AddLimbs(a, b, k, carry) ==
    IF k > SizeofSizeT THEN <<>>
    ELSE <<(a[k] + b[k] + carry) % 256>> \o AddLimbs(a, b, k + 1, (a[k] + b[k] + carry) \div 256)

\* a + b modulo 2^64
AddSizeT(a, b) == AddLimbs(a, b, 1, 0)

RECURSIVE LessFrom(_, _, _)
LessFrom(a, b, k) ==
    IF k = 0 THEN FALSE
    ELSE IF a[k] # b[k] THEN a[k] < b[k]
    ELSE LessFrom(a, b, k - 1)

\* a < b
SizeLess(a, b) == LessFrom(a, b, SizeofSizeT)

\* A size_t below 2^16, and its value.
SizeFits(s) == \A k \in 3..SizeofSizeT : s[k] = 0
SizeValue(s) == s[1] + 256 * s[2]

---------------------------------------------------------------------------
(* std::vector<T> *)

\* The largest dimension a matrix or a tensor is given, apart from the two
\* large values above.
MaxDim == 2

\* The elements the memory of the machine holds.
MaxElements == MaxDim * MaxDim

\* std::vector<T>::resize(n) throws std::length_error when n is beyond
\* max_size() and std::bad_alloc when the memory does not hold n elements.
VectorResizeThrows(n) == ~SizeFits(n) \/ SizeValue(n) > MaxElements

\* The elements kept, then value-initialised ones.
VectorResize(data, n) == [i \in 1..SizeValue(n) |-> IF i <= Len(data) THEN data[i] ELSE 0]

\* data_[index] is an element of the buffer.
InsideBuffer(data, index) == SizeFits(index) /\ SizeValue(index) < Len(data)

---------------------------------------------------------------------------
(* Matrix<int> *)

MatrixOf(data, rows, cols) == [data_ |-> data, rows_ |-> rows, cols_ |-> cols]

\* Matrix()
Matrix_default == MatrixOf(<<>>, SizeT(0), SizeT(0))

\* The outcome of a constructor or of a member function: the exception it
\* threw, or "ok", and the matrix it built or left behind.
MatrixOutcome(status, m) == [status |-> status, m |-> m]

\* Matrix(rows, cols)
Matrix_rows_cols(rows, cols) ==
    IF VectorResizeThrows(MulSizeT(rows, cols))
    THEN MatrixOutcome("length_error", Matrix_default)
    ELSE MatrixOutcome("ok", MatrixOf(VectorResize(<<>>, MulSizeT(rows, cols)), rows, cols))

\* Matrix(rows, cols, data)
Matrix_rows_cols_data(rows, cols, data) ==
    IF SizeT(Len(data)) # MulSizeT(rows, cols)
    THEN MatrixOutcome("invalid_argument", Matrix_default)
    ELSE MatrixOutcome("ok", MatrixOf(data, rows, cols))

\* size()
Matrix_size(m) == MulSizeT(m.rows_, m.cols_)

\* A resize that sets the dimensions once the buffer has its new size.
Matrix_resize_buffer_first(m, rows, cols) ==
    IF VectorResizeThrows(MulSizeT(rows, cols))
    THEN MatrixOutcome("length_error", m)
    ELSE MatrixOutcome("ok", MatrixOf(VectorResize(m.data_, MulSizeT(rows, cols)), rows, cols))

\* resize(rows, cols): the dimensions are set before the buffer is resized.
Matrix_resize(m, rows, cols) ==
    IF VectorResizeThrows(MulSizeT(rows, cols))
    THEN MatrixOutcome("length_error", MatrixOf(m.data_, rows, cols))
    ELSE MatrixOutcome("ok", MatrixOf(VectorResize(m.data_, MulSizeT(rows, cols)), rows, cols))

\* fill(value)
Matrix_fill(m, value) == MatrixOf([i \in 1..Len(m.data_) |-> value], m.rows_, m.cols_)

\* operator()(row, col): the exception, or the index of data_ it returns a
\* reference to.
Matrix_element(m, row, col) ==
    IF ~SizeLess(row, m.rows_) \/ ~SizeLess(col, m.cols_)
    THEN [status |-> "out_of_range", index |-> SizeT(0)]
    ELSE [status |-> "ok", index |-> AddSizeT(MulSizeT(row, m.cols_), col)]

\* (*this)(i, k) for a matrix whose dimensions fit; i and k count from 0.
ElementOf(m, i, k) == m.data_[SizeValue(Matrix_element(m, SizeT(i), SizeT(k)).index) + 1]

\* sum += (*this)(i, k) * other(k, j), for k from `from` on.
RECURSIVE DotProduct(_, _, _, _, _)
DotProduct(A, B, i, j, from) ==
    IF from >= SizeValue(A.cols_) THEN 0
    ELSE ElementOf(A, i, from) * ElementOf(B, from, j) + DotProduct(A, B, i, j, from + 1)

\* operator*, for matrices whose dimensions fit.
Matrix_times(A, B) ==
    IF A.cols_ # B.rows_ THEN MatrixOutcome("invalid_argument", Matrix_default)
    ELSE IF Matrix_rows_cols(A.rows_, B.cols_).status # "ok"
    THEN Matrix_rows_cols(A.rows_, B.cols_)
    ELSE MatrixOutcome("ok",
            MatrixOf([n \in 1..SizeValue(MulSizeT(A.rows_, B.cols_)) |->
                         DotProduct(A, B, (n - 1) \div SizeValue(B.cols_),
                                    (n - 1) % SizeValue(B.cols_), 0)],
                     A.rows_, B.cols_))

\* operator+: the loop runs over data_.size() elements.
Matrix_plus(A, B) ==
    IF A.rows_ # B.rows_ \/ A.cols_ # B.cols_
    THEN MatrixOutcome("invalid_argument", Matrix_default)
    ELSE IF Matrix_rows_cols(A.rows_, A.cols_).status # "ok"
    THEN Matrix_rows_cols(A.rows_, A.cols_)
    ELSE MatrixOutcome("ok",
            MatrixOf([n \in 1..Len(Matrix_rows_cols(A.rows_, A.cols_).m.data_) |->
                         IF n <= Len(A.data_) /\ n <= Len(B.data_)
                         THEN A.data_[n] + B.data_[n] ELSE 0],
                     A.rows_, A.cols_))

\* save_to_file: rows_, cols_, then the buffer, as they lie in memory.
Matrix_save_to_file(m) == m.rows_ \o m.cols_ \o ConcatBytes4(m.data_)

\* The int in four little-endian bytes.
IntOfBytes(bs) == bs[1] + 256 * bs[2] + 65536 * bs[3] + 16777216 * bs[4]

\* The buffer after file.read has stored the bytes it found over it.
ReadInto(data, bytes) ==
    [i \in 1..Len(data) |->
        IntOfBytes([b \in 1..SizeofInt |->
                       IF (i - 1) * SizeofInt + b <= Len(bytes)
                       THEN bytes[(i - 1) * SizeofInt + b]
                       ELSE ToBytes(data[i], SizeofInt)[b]])]

NoDisk == [exists |-> FALSE, bytes |-> <<>>, from |-> Matrix_default]

\* load_from_file after resize(rows, cols) has returned: the payload is read
\* into the buffer.
PayloadLoaded(resized, payload) ==
    IF Len(payload) < Len(resized.data_) * SizeofInt
    THEN MatrixOutcome("FileIOException", MatrixOf(ReadInto(resized.data_, payload),
                                                  resized.rows_, resized.cols_))
    ELSE MatrixOutcome("ok", MatrixOf(ReadInto(resized.data_, payload),
                                      resized.rows_, resized.cols_))

\* load_from_file of a file cut after `cut` bytes.
Matrix_load_from_file(m, file, cut) ==
    IF ~file.exists THEN MatrixOutcome("FileIOException", m)
    ELSE IF cut < 2 * SizeofSizeT THEN MatrixOutcome("FileIOException", m)
    ELSE IF Matrix_resize(m, SubSeq(file.bytes, 1, SizeofSizeT),
                          SubSeq(file.bytes, SizeofSizeT + 1, 2 * SizeofSizeT)).status # "ok"
    THEN Matrix_resize(m, SubSeq(file.bytes, 1, SizeofSizeT),
                       SubSeq(file.bytes, SizeofSizeT + 1, 2 * SizeofSizeT))
    ELSE PayloadLoaded(Matrix_resize(m, SubSeq(file.bytes, 1, SizeofSizeT),
                                     SubSeq(file.bytes, SizeofSizeT + 1, 2 * SizeofSizeT)).m,
                       SubSeq(file.bytes, 2 * SizeofSizeT + 1, cut))

---------------------------------------------------------------------------
(* Tensor<int> *)

TensorOf(data, shape) == [data_ |-> data, shape_ |-> shape]

\* Tensor() = default: no dimension and no element.
Tensor_default == TensorOf(<<>>, <<>>)

\* The product of the dimensions modulo 2^64, 1 for the empty shape.
RECURSIVE ShapeProduct(_)
ShapeProduct(shape) ==
    IF shape = <<>> THEN SizeT(1) ELSE MulSizeT(Head(shape), ShapeProduct(Tail(shape)))

\* total_size()
Tensor_total_size(t) == ShapeProduct(t.shape_)

\* Tensor(shape)
Tensor_shape(shape) ==
    IF VectorResizeThrows(ShapeProduct(shape))
    THEN MatrixOutcome("length_error", Tensor_default)
    ELSE MatrixOutcome("ok", TensorOf(VectorResize(<<>>, ShapeProduct(shape)), shape))

\* resize(shape): the shape is set before the buffer is resized.
Tensor_resize(t, shape) ==
    IF VectorResizeThrows(ShapeProduct(shape))
    THEN MatrixOutcome("length_error", TensorOf(t.data_, shape))
    ELSE MatrixOutcome("ok", TensorOf(VectorResize(t.data_, ShapeProduct(shape)), shape))

\* fill(value)
Tensor_fill(t, value) == TensorOf([i \in 1..Len(t.data_) |-> value], t.shape_)

\* The loop of compute_index from dimension i down to the first one.
RECURSIVE IndexFrom(_, _, _, _, _)
IndexFrom(t, indices, i, index, stride) ==
    IF i = 0 THEN [status |-> "ok", index |-> index]
    ELSE IF ~SizeLess(indices[i], t.shape_[i])
    THEN [status |-> "out_of_range", index |-> SizeT(0)]
    ELSE IndexFrom(t, indices, i - 1, AddSizeT(index, MulSizeT(indices[i], stride)),
                   MulSizeT(stride, t.shape_[i]))

\* compute_index(indices)
Tensor_compute_index(t, indices) ==
    IF Len(indices) # Len(t.shape_) THEN [status |-> "invalid_argument", index |-> SizeT(0)]
    ELSE IndexFrom(t, indices, Len(t.shape_), SizeT(0), SizeT(1))

\* at(indices): the exception of compute_index, or the element of data_ it
\* returns a reference to; the reference is to no element ("undefined") when
\* the index lies outside the buffer.
Tensor_at(t, indices) ==
    IF Tensor_compute_index(t, indices).status # "ok" THEN Tensor_compute_index(t, indices)
    ELSE IF InsideBuffer(t.data_, Tensor_compute_index(t, indices).index)
    THEN Tensor_compute_index(t, indices)
    ELSE [status |-> "undefined", index |-> Tensor_compute_index(t, indices).index]

NoCall == [op |-> "none", status |-> "ok", arg |-> <<>>, result |-> <<>>]

---------------------------------------------------------------------------
(* Threads *)

\* Two threads; each constructs an instance of its own and drives it.
Threads == {1, 2}

\* The rand() calls of a constructor that are followed.
RandDraws == 2

\* The state the processes of a program share whatever instances they hold:
\* the hidden state of rand(), counted in calls, and the string
\* `static std::string full_message` of TinyLlamaException::what; for each
\* of the two, the threads that have written it and those that have read it.
\* Of each thread: its position, the values its constructor drew and the
\* text it read through the pointer what() returned.
ThreadsAtStart ==
    [rand |-> 0, full_message |-> <<>>,
     writers |-> [loc \in {"rand", "full_message"} |-> {}],
     readers |-> [loc \in {"rand", "full_message"} |-> {}],
     of |-> [t \in Threads |-> [pc |-> "construct", drawn |-> <<>>, seen |-> <<>>]]]

---------------------------------------------------------------------------
(* ModelConfig *)

DefaultModelDim == 512
DefaultNumLayers == 6
DefaultNumHeads == 8
DefaultFfnHiddenDim == 2048
DefaultMaxSequenceLength == 1024
DefaultVocabSize == 32000
\* 0.1f = 0x3DCCCCCD
DropoutTenth == 1036831949

ModelConfig(md, nl, nh, ffn, msl, vs, dr) ==
    [model_dim |-> md, num_layers |-> nl, num_heads |-> nh, ffn_hidden_dim |-> ffn,
     max_sequence_length |-> msl, vocab_size |-> vs, dropout_rate |-> dr]

DefaultConfig ==
    ModelConfig(DefaultModelDim, DefaultNumLayers, DefaultNumHeads, DefaultFfnHiddenDim,
                DefaultMaxSequenceLength, DefaultVocabSize, DropoutTenth)

\* The seven header fields in file order.
ConfigFields(c) ==
    <<c.model_dim, c.num_layers, c.num_heads, c.ffn_hidden_dim,
      c.max_sequence_length, c.vocab_size, c.dropout_rate>>

EXPECTED_MAGIC == 1414286413
SUPPORTED_VERSION == 1

---------------------------------------------------------------------------
(* The tensors of a model, in weight-file order *)

\* A loader that reads every tensor straight into the model.
TensorRecInPlace(layer, name, dims, inplace, commit) ==
    [id |-> <<layer, name>>, dims |-> dims, inplace |-> TRUE, commit |-> TRUE]

\* One record of the weight file: the tensor it fills, the dimensions the
\* loader expects, whether the loader reads it straight into the model
\* (embeddings, position embeddings, output projection) or into a local that
\* is moved into the model at the end of its helper (commit).
TensorRec(layer, name, dims, inplace, commit) ==
    [id |-> <<layer, name>>, dims |-> dims, inplace |-> inplace, commit |-> commit]

AttentionPlan(c, l) ==
    << TensorRec(l, "query", <<c.model_dim, c.model_dim>>, FALSE, FALSE),
       TensorRec(l, "key", <<c.model_dim, c.model_dim>>, FALSE, FALSE),
       TensorRec(l, "value", <<c.model_dim, c.model_dim>>, FALSE, FALSE),
       TensorRec(l, "output", <<c.model_dim, c.model_dim>>, FALSE, TRUE) >>

FfnPlan(c, l) ==
    << TensorRec(l, "linear1", <<c.model_dim, c.ffn_hidden_dim>>, FALSE, FALSE),
       TensorRec(l, "bias1", <<c.ffn_hidden_dim>>, FALSE, FALSE),
       TensorRec(l, "linear2", <<c.ffn_hidden_dim, c.model_dim>>, FALSE, FALSE),
       TensorRec(l, "bias2", <<c.model_dim>>, FALSE, TRUE) >>

LayerNormPlan(c, l) ==
    << TensorRec(l, "ln1_weight", <<c.model_dim>>, FALSE, FALSE),
       TensorRec(l, "ln1_bias", <<c.model_dim>>, FALSE, FALSE),
       TensorRec(l, "ln2_weight", <<c.model_dim>>, FALSE, FALSE),
       TensorRec(l, "ln2_bias", <<c.model_dim>>, FALSE, TRUE) >>

RECURSIVE LayersPlan(_, _)
LayersPlan(c, l) ==
    IF l > c.num_layers THEN <<>>
    ELSE AttentionPlan(c, l) \o FfnPlan(c, l) \o LayerNormPlan(c, l) \o LayersPlan(c, l + 1)

\* The records load_model_weights reads after the header, in order.
LoadPlan(c) ==
    << TensorRec(0, "embedding", <<c.vocab_size, c.model_dim>>, TRUE, TRUE),
       TensorRec(0, "position", <<c.max_sequence_length, c.model_dim>>, TRUE, TRUE) >>
    \o LayersPlan(c, 1)
    \o << TensorRec(0, "projection", <<c.model_dim, c.vocab_size>>, TRUE, TRUE) >>

TensorIds(c) == {LoadPlan(c)[k].id : k \in 1..Len(LoadPlan(c))}

Tensor(dims, data) == [dims |-> dims, data |-> data]

\* Matrix<float>(rows, cols) and std::vector<float>(n): value-initialised.
ZeroTensor(dims) == Tensor(dims, Zeros(SizeofFloat * Product(dims)))

\* Matrix::resize / vector::resize: the leading elements are kept, new ones are zero.
Resize(t, dims) ==
    LET n == SizeofFloat * Product(dims)
        keep == IF Len(t.data) < n THEN Len(t.data) ELSE n
    IN Tensor(dims, SubSeq(t.data, 1, keep) \o Zeros(n - keep))

---------------------------------------------------------------------------
(* Construction *)

\* The image of the i-th value rand() gives a freshly built attention matrix.
\* rand() is not modelled; all that matters is that the values are neither the
\* zeros of the other tensors nor the constants save_model_weights writes.
RandImage(l, k, i) == <<(i % 250) + 1, k, l, 190>>

RECURSIVE RandData(_, _, _, _)
RandData(l, k, i, n) ==
    IF i >= n THEN <<>> ELSE RandImage(l, k, i) \o RandData(l, k, i + 1, n)

AttentionCode(name) ==
    CASE name = "query" -> 1 [] name = "key" -> 2 [] name = "value" -> 3 [] OTHER -> 4

\* The value a tensor has after the constructors have run.
FreshTensor(rec) ==
    LET name == rec.id[2] IN
    IF name \in {"query", "key", "value", "output"}
    THEN Tensor(rec.dims, RandData(rec.id[1], AttentionCode(name), 0, Product(rec.dims)))
    ELSE IF name \in {"ln1_weight", "ln2_weight"}
    THEN Tensor(rec.dims, Repeat(F1, Product(rec.dims)))
    ELSE ZeroTensor(rec.dims)

FreshWeights(c) ==
    LET plan == LoadPlan(c) IN
    [id \in TensorIds(c) |->
        FreshTensor(CHOOSE r \in {plan[k] : k \in 1..Len(plan)} : r.id = id)]

\* MultiHeadAttention's constructor rejects a head count that does not divide
\* model_dim; it runs once per layer.
ConstructorAccepts(c) == c.num_layers > 0 => c.model_dim % c.num_heads = 0

---------------------------------------------------------------------------
(* std::ifstream::read with no exception mask *)

OpenStream == [pos |-> 0, ok |-> TRUE]

\* file.read(buf, n) on the bytes f: once the stream has failed a read does
\* nothing; a short read stores the bytes that are left in the front of buf,
\* leaves the rest of buf as it was and sets failbit.
StreamRead(f, s, n, buf) ==
    IF ~s.ok THEN [s |-> s, buf |-> buf]
    ELSE LET avail == Len(f) - s.pos IN
         IF avail >= n
         THEN [s |-> [pos |-> s.pos + n, ok |-> TRUE],
               buf |-> SubSeq(f, s.pos + 1, s.pos + n)]
         ELSE [s |-> [pos |-> Len(f), ok |-> FALSE],
               buf |-> SubSeq(f, s.pos + 1, Len(f)) \o SubSeq(buf, avail + 1, n)]

\* An uninitialised local (uint32_t magic_number; size_t q_rows; ...) holds an
\* indeterminate value until a read overwrites it.  Two values stand for all:
\* the value the following check expects, and one differing from it in the last
\* byte, which a short read never overwrites.
Indeterminate(expected, matches) ==
    IF matches THEN expected ELSE [expected EXCEPT ![Len(expected)] = 255]

Raise(at, w) == [status |-> "FileIOException", at |-> at, w |-> w]

Loaded(w) == [status |-> "ok", at |-> <<0, "none">>, w |-> w]

\* Move the locals of one helper into the model (the std::move assignments).
Commit(w, pend) == [id \in DOMAIN w |-> IF id \in DOMAIN pend THEN pend[id] ELSE w[id]]

NoPending == [id \in {} |-> 0]

\* A loader without the end-of-file probe.
TrailingDataIgnored(f, s) == FALSE

\* if (file.read(&test_byte, 1)) throw: one more byte can be read.
TrailingData(f, s) == StreamRead(f, s, 1, <<0>>).s.ok

\* file.read into one size_t local, and whether it then equals dim.
DimResult(r, want) == [s |-> r.s, ok |-> r.buf = want]

DimRead(f, s, dim, matches) ==
    DimResult(StreamRead(f, s, SizeofSizeT, Indeterminate(ToBytes(dim, SizeofSizeT), matches)),
              ToBytes(dim, SizeofSizeT))

DimBoth(r1, r2) == [s |-> r2.s, ok |-> r1.ok /\ r2.ok]

DimSecond(f, dims, matches, r1) == DimBoth(r1, DimRead(f, r1.s, dims[2], matches))

\* The reads of a record's dimensions, then their comparison with dims.
DimsRead(f, s, dims, matches) ==
    IF Len(dims) = 1 THEN DimRead(f, s, dims[1], matches)
    ELSE DimSecond(f, dims, matches, DimRead(f, s, dims[1], matches))

\* The locals of a helper, with the tensor just read added.
Pend(pend, rec, data) ==
    [id \in DOMAIN pend \cup {rec.id} |-> IF id = rec.id THEN Tensor(rec.dims, data) ELSE pend[id]]

RECURSIVE LoadRecords(_, _, _, _, _, _, _)

\* After the payload read r of record rec: the tensor is in the model
\* (in-place), or in a local that is moved into the model when rec is the last
\* record of its helper.
PayloadRead(f, plan, k, w, pend, g, rec, r) ==
    IF rec.inplace
    THEN LoadRecords(f, plan, k + 1, r.s, [w EXCEPT ![rec.id] = Tensor(rec.dims, r.buf)],
                     pend, g)
    ELSE IF rec.commit
    THEN LoadRecords(f, plan, k + 1, r.s, Commit(w, Pend(pend, rec, r.buf)), NoPending, g)
    ELSE LoadRecords(f, plan, k + 1, r.s, w, Pend(pend, rec, r.buf), g)

\* After the dimension reads d of record rec: throw on a mismatch, else read
\* the payload into the resized tensor or into a new zero local.
DimsChecked(f, plan, k, w, pend, g, rec, d) ==
    IF ~d.ok THEN Raise(rec.id, w)
    ELSE PayloadRead(f, plan, k, w, pend, g, rec,
                     StreamRead(f, d.s, SizeofFloat * Product(rec.dims),
                                IF rec.inplace THEN Resize(w[rec.id], rec.dims).data
                                ELSE ZeroTensor(rec.dims).data))

RecordRead(f, plan, k, s, w, pend, g, rec) ==
    DimsChecked(f, plan, k, w, pend, g, rec, DimsRead(f, s, rec.dims, g # k + 2))

\* The tensor records from plan[k] on, then the end-of-file probe.  g is the
\* number of the first check (1 magic, 2 version, k + 2 record k) whose
\* indeterminate locals hold a value the check rejects; 0 when none does.
LoadRecords(f, plan, k, s, w, pend, g) ==
    IF k > Len(plan)
    THEN IF TrailingData(f, s) THEN Raise(<<0, "trailing">>, w) ELSE Loaded(w)
    ELSE RecordRead(f, plan, k, s, w, pend, g, plan[k])

\* The seven reads into file_config, whose fields start at ModelConfig's
\* default member initialisers.
RECURSIVE ReadConfig(_, _, _, _)

ConfigRest(r, rest) == [s |-> rest.s, fields |-> <<r.buf>> \o rest.fields]

ConfigField(f, defaults, size, r) == ConfigRest(r, ReadConfig(f, r.s, Tail(defaults), size))

ReadConfig(f, s, defaults, size) ==
    IF defaults = <<>> THEN [s |-> s, fields |-> <<>>]
    ELSE ConfigField(f, defaults, size, StreamRead(f, s, size, ToBytes(Head(defaults), size)))

\* The header fields load_model_weights compares with config_:
\* model_dim, num_layers, num_heads and vocab_size.
CheckedConfigFields == {1, 2, 3, 6}

ConfigCompatible(fields, c) ==
    \A i \in CheckedConfigFields : fields[i] = ToBytes(ConfigFields(c)[i], SizeofInt)

MagicOk(buf) == buf = ToBytes(EXPECTED_MAGIC, SizeofU32)

\* A loader that accepts every version.
VersionOkAny(buf) == TRUE

VersionOk(buf) == buf = ToBytes(SUPPORTED_VERSION, SizeofU32)

ConfigRead(f, c, w, g, cfg) ==
    IF ~ConfigCompatible(cfg.fields, c) THEN Raise(<<0, "config">>, w)
    ELSE LoadRecords(f, LoadPlan(c), 1, cfg.s, w, NoPending, g)

VersionRead(f, c, w, g, version) ==
    IF ~VersionOk(version.buf) THEN Raise(<<0, "version">>, w)
    ELSE ConfigRead(f, c, w, g,
                    ReadConfig(f, version.s, ConfigFields(DefaultConfig), SizeofInt))

MagicRead(f, c, w, g, magic) ==
    IF ~MagicOk(magic.buf) THEN Raise(<<0, "magic">>, w)
    ELSE VersionRead(f, c, w, g,
                     StreamRead(f, magic.s, SizeofU32,
                                Indeterminate(ToBytes(SUPPORTED_VERSION, SizeofU32), g # 2)))

\* TinyLlamaModel::load_model_weights on a model with config c and weights w:
\* open, magic, version, configuration, the tensor records, the probe.
LoadModelWeights(c, w, d, g) ==
    IF ~d.exists THEN Raise(<<0, "open">>, w)
    ELSE MagicRead(d.bytes, c, w, g,
                   StreamRead(d.bytes, OpenStream, SizeofU32,
                              Indeterminate(ToBytes(EXPECTED_MAGIC, SizeofU32), g # 1)))

\* The checks whose locals can be indeterminate.
GarbageChoices(c) == 0..(Len(LoadPlan(c)) + 2)

---------------------------------------------------------------------------
(* Writing weight files *)

HeaderBytes(c) ==
    ToBytes(EXPECTED_MAGIC, SizeofU32) \o ToBytes(SUPPORTED_VERSION, SizeofU32)
    \o ConcatBytes4(ConfigFields(c))

RECURSIVE DimBytes(_)
DimBytes(dims) ==
    IF dims = <<>> THEN <<>> ELSE ToBytes(Head(dims), SizeofSizeT) \o DimBytes(Tail(dims))

\* What save_model_weights writes for a tensor of a transformer block: the
\* dimensions the config gives, then a constant (0.1 for matrices, 1.0 for the
\* layer-norm weights, 0.0 for the biases).
DummyImage(name) ==
    IF name \in {"query", "key", "value", "output", "linear1", "linear2"} THEN F01
    ELSE IF name \in {"ln1_weight", "ln2_weight"} THEN F1
    ELSE F0

\* A writer that stores the columns before the rows of a block's tensors.
SavedRecordTransposed(rec, w) ==
    IF rec.inplace
    THEN DimBytes(w[rec.id].dims)
         \o SubSeq(w[rec.id].data, 1, SizeofFloat * Product(w[rec.id].dims))
    ELSE DimBytes([i \in 1..Len(rec.dims) |-> rec.dims[Len(rec.dims) + 1 - i]])
         \o Repeat(DummyImage(rec.id[2]), Product(rec.dims))

\* What save_model_weights writes for one record of the plan.
SavedRecord(rec, w) ==
    IF rec.inplace
    THEN \* rows(), cols() and data() of the model's own matrix
         DimBytes(w[rec.id].dims)
         \o SubSeq(w[rec.id].data, 1, SizeofFloat * Product(w[rec.id].dims))
    ELSE DimBytes(rec.dims) \o Repeat(DummyImage(rec.id[2]), Product(rec.dims))

RECURSIVE SavedRecords(_, _, _)
SavedRecords(plan, k, w) ==
    IF k > Len(plan) THEN <<>> ELSE SavedRecord(plan[k], w) \o SavedRecords(plan, k + 1, w)

\* TinyLlamaModel::save_model_weights: the bytes of the file it writes.
SaveModelWeights(c, w) == HeaderBytes(c) \o SavedRecords(LoadPlan(c), 1, w)

\* create_test_weight_file_with_known_values fills each tensor with a pattern
\* base + step * (i % period); j is the place of element i within the period.
KnownIndex(name, i) ==
    IF name \in {"embedding", "query", "key", "value", "output"} THEN i % 100
    ELSE IF name = "position" THEN i % 1000
    ELSE IF name = "linear1" THEN i % 50
    ELSE IF name = "linear2" THEN i % 30
    ELSE IF name = "projection" THEN i % 200
    ELSE i

\* The image of element i of record k of that file.  The pattern's base is 0.0
\* for the embeddings, the position embeddings, the projection and, in the
\* first layer, for every tensor but key, value, output (0.01, 0.02, 0.03) and
\* the layer-norm weights (1.0); the query pattern of the second layer starts
\* at 0.1.  Every other value gets an image of its own.
KnownImage(rec, k, i) ==
    IF KnownIndex(rec.id[2], i) = 0 /\ rec.id[1] <= 1
       /\ rec.id[2] \notin {"key", "value", "output"}
    THEN IF rec.id[2] \in {"ln1_weight", "ln2_weight"} THEN F1 ELSE F0
    ELSE IF KnownIndex(rec.id[2], i) = 0 /\ rec.id[1] = 2 /\ rec.id[2] = "query" THEN F01
    ELSE <<KnownIndex(rec.id[2], i) % 256, KnownIndex(rec.id[2], i) \div 256, k % 256, 60>>

RECURSIVE KnownData(_, _, _, _)
KnownData(rec, k, i, n) ==
    IF i >= n THEN <<>> ELSE KnownImage(rec, k, i) \o KnownData(rec, k, i + 1, n)

RECURSIVE KnownRecords(_, _)
KnownRecords(plan, k) ==
    IF k > Len(plan) THEN <<>>
    ELSE DimBytes(plan[k].dims) \o KnownData(plan[k], k, 0, Product(plan[k].dims))
         \o KnownRecords(plan, k + 1)

\* create_test_weight_file_with_known_values(filename, c)
TestWeightFile(c) == HeaderBytes(c) \o KnownRecords(LoadPlan(c), 1)

\* The tensors a well-formed file for c holds, read directly off its layout.
RECURSIVE TensorsOfFile(_, _, _, _)
TensorsOfFile(f, plan, k, pos) ==
    IF k > Len(plan) THEN [id \in {} |-> 0]
    ELSE LET rec == plan[k]
             start == pos + SizeofSizeT * Len(rec.dims)
             n == SizeofFloat * Product(rec.dims)
             rest == TensorsOfFile(f, plan, k + 1, start + n)
         IN [id \in DOMAIN rest \cup {rec.id} |->
                IF id = rec.id THEN Tensor(rec.dims, SubSeq(f, start + 1, start + n))
                ELSE rest[id]]

HeaderSize == 2 * SizeofU32 + 7 * SizeofInt

---------------------------------------------------------------------------
(* Vocabulary and tokenizer *)

UNK_TOKEN == "<unk>"
PAD_TOKEN == "<pad>"
BOS_TOKEN == "<bos>"
EOS_TOKEN == "<eos>"

EmptyVocabulary == [id_to_token |-> <<>>, token_to_id |-> [t \in {} |-> 0]]

\* Vocabulary::add_token; ids are 0-based, id_to_token[id + 1] is the token.
AddToken(v, token) ==
    IF token \in DOMAIN v.token_to_id THEN v
    ELSE [id_to_token |-> Append(v.id_to_token, token),
          token_to_id |-> [t \in DOMAIN v.token_to_id \cup {token} |->
                              IF t = token THEN Len(v.id_to_token) ELSE v.token_to_id[t]]]

\* Vocabulary::Vocabulary()
NewVocabulary ==
    AddToken(AddToken(AddToken(AddToken(EmptyVocabulary, UNK_TOKEN), PAD_TOKEN), BOS_TOKEN),
             EOS_TOKEN)

\* One line of a vocabulary file: "token" (id = -1) or "token id".
VocabLine(token, id) == [token |-> token, id |-> id]

PutToken(v, token, id) ==
    LET grown == IF id >= Len(v.id_to_token)
                 THEN v.id_to_token \o [i \in 1..(id + 1 - Len(v.id_to_token)) |-> ""]
                 ELSE v.id_to_token
    IN [id_to_token |-> [grown EXCEPT ![id + 1] = token],
        token_to_id |-> [t \in DOMAIN v.token_to_id \cup {token} |->
                            IF t = token THEN id ELSE v.token_to_id[t]]]

RECURSIVE ReadVocabLines(_, _)
ReadVocabLines(v, lines) ==
    IF lines = <<>> THEN v
    ELSE LET l == Head(lines) IN
         ReadVocabLines(IF l.id >= 0 THEN PutToken(v, l.token, l.id) ELSE AddToken(v, l.token),
                        Tail(lines))

\* The vocabulary after load_from_file has cleared it and put the special
\* tokens back under the ids they had in v.
SpecialTokensOf(v) ==
    PutToken(PutToken(PutToken(PutToken(EmptyVocabulary,
                                        UNK_TOKEN, v.token_to_id[UNK_TOKEN]),
                               PAD_TOKEN, v.token_to_id[PAD_TOKEN]),
                      BOS_TOKEN, v.token_to_id[BOS_TOKEN]),
             EOS_TOKEN, v.token_to_id[EOS_TOKEN])

\* Vocabulary::load_from_file on an open file: the special tokens keep their
\* ids, then the lines are read.
VocabLoadFromFile(v, lines) == ReadVocabLines(SpecialTokensOf(v), lines)

\* BPETokenizer::vocab_size
VocabSize(v) == Len(v.id_to_token)

\* The vocabulary files of the model: token-only lines, a line with an id
\* beyond the current size, and an empty file.
VocabFiles ==
    { << VocabLine("a", -1), VocabLine("b", -1) >>,
      << VocabLine("a", 5) >>,
      << >> }

\* TinyLlamaModel::load_tokenizer: load_vocab, then load_merges; either throws
\* when its file cannot be opened.
LoadTokenizerModel(v, vocabExists, lines, mergesExists) ==
    IF ~vocabExists THEN [status |-> "FileIOException", v |-> v]
    ELSE IF ~mergesExists THEN [status |-> "FileIOException", v |-> VocabLoadFromFile(v, lines)]
    ELSE [status |-> "ok", v |-> VocabLoadFromFile(v, lines)]

\* TinyLlamaModel::is_initialized; tokenizer_ is never null after construction.
IsInitialized(v) == VocabSize(v) # 0

---------------------------------------------------------------------------
(* forward *)

Thrown(what) == [status |-> what, logits |-> <<>>]

\* Matrix::operator*: the inner dimensions must agree.
MultDims(a, b) == IF a[2] = b[1] THEN <<a[1], b[2]>> ELSE <<>>

\* Matrix::operator()(i, j) for every i < rows, j < cols is inside dims.
Covers(dims, rows, cols) == rows = 0 \/ cols = 0 \/ (rows <= dims[1] /\ cols <= dims[2])

\* A length check that is off by one.
SequenceTooLongOffByOne(c, tokens) == Len(tokens) >= c.max_sequence_length

\* if (seq_len > config_.max_sequence_length)
SequenceTooLong(c, tokens) == Len(tokens) > c.max_sequence_length

\* if (token_id < 0 || token_id >= config_.vocab_size)
TokenOutOfRange(c, token_id) == token_id < 0 \/ token_id >= c.vocab_size

\* The embedding loop of forward from token i on: the range check of a token,
\* then the reads of its embedding row and of position row i - 1.
RECURSIVE EmbedTokens(_, _, _, _)
EmbedTokens(c, w, tokens, i) ==
    IF i > Len(tokens) THEN "ok"
    ELSE IF TokenOutOfRange(c, tokens[i]) THEN "ModelException"
    ELSE IF ~(tokens[i] < w[<<0, "embedding">>].dims[1]
              /\ i - 1 < w[<<0, "position">>].dims[1]
              /\ Covers(w[<<0, "embedding">>].dims, 1, c.model_dim)
              /\ Covers(w[<<0, "position">>].dims, 1, c.model_dim))
    THEN "out_of_range"
    ELSE EmbedTokens(c, w, tokens, i + 1)

\* MultiHeadAttention::forward on a seq_len x model_dim input: the shapes of
\* its products and the element reads of the head loop.
AttentionForward(c, w, l, seq_len) ==
    LET in == <<seq_len, c.model_dim>>
        q == MultDims(in, w[<<l, "query">>].dims)
        k == MultDims(in, w[<<l, "key">>].dims)
        v == MultDims(in, w[<<l, "value">>].dims)
        head_dim == c.model_dim \div c.num_heads
    IN IF q = <<>> \/ k = <<>> \/ v = <<>> THEN "invalid_argument"
       ELSE IF ~(Covers(q, seq_len, c.num_heads * head_dim)
                 /\ Covers(k, seq_len, c.num_heads * head_dim)
                 /\ Covers(v, seq_len, c.num_heads * head_dim))
       THEN "out_of_range"
       ELSE IF MultDims(in, w[<<l, "output">>].dims) = <<>> THEN "invalid_argument"
       ELSE IF ~Covers(MultDims(in, w[<<l, "output">>].dims), seq_len, c.model_dim)
       THEN "out_of_range"
       ELSE "ok"

\* FeedForwardNetwork::forward on a seq_len x model_dim input.
FfnForward(c, w, l, seq_len) ==
    LET in == <<seq_len, c.model_dim>>
        hidden == MultDims(in, w[<<l, "linear1">>].dims)
    IN IF hidden = <<>> THEN "invalid_argument"
       ELSE IF ~Covers(hidden, seq_len, c.ffn_hidden_dim) THEN "out_of_range"
       ELSE IF MultDims(hidden, w[<<l, "linear2">>].dims) = <<>> THEN "invalid_argument"
       ELSE IF ~Covers(MultDims(hidden, w[<<l, "linear2">>].dims), seq_len, c.model_dim)
       THEN "out_of_range"
       ELSE "ok"

\* TransformerBlock::layer_norm rejects parameters whose size is not model_dim.
LayerNormOk(c, w, l, weight, bias) ==
    w[<<l, weight>>].dims = <<c.model_dim>> /\ w[<<l, bias>>].dims = <<c.model_dim>>

\* TransformerBlock::forward: norm, attention, residual, norm, ffn, residual.
BlockForward(c, w, l, seq_len) ==
    IF ~LayerNormOk(c, w, l, "ln1_weight", "ln1_bias") THEN "ModelException"
    ELSE IF AttentionForward(c, w, l, seq_len) # "ok" THEN AttentionForward(c, w, l, seq_len)
    ELSE IF ~LayerNormOk(c, w, l, "ln2_weight", "ln2_bias") THEN "ModelException"
    ELSE FfnForward(c, w, l, seq_len)

RECURSIVE BlocksForward(_, _, _, _)
BlocksForward(c, w, l, seq_len) ==
    IF l > c.num_layers THEN "ok"
    ELSE IF BlockForward(c, w, l, seq_len) # "ok" THEN BlockForward(c, w, l, seq_len)
    ELSE BlocksForward(c, w, l + 1, seq_len)

\* The vector forward returns: entry i is element (seq_len - 1, i) of
\* hidden_states * output_projection_, for i < vocab_size.
LastPositionLogits(c, seq_len) == [i \in 1..c.vocab_size |-> <<seq_len - 1, i - 1>>]

\* TinyLlamaModel::forward(input_tokens) on tokenizer v, config c, weights w.
ForwardModel(c, v, w, tokens) ==
    LET seq_len == Len(tokens)
        logits == MultDims(<<seq_len, c.model_dim>>, w[<<0, "projection">>].dims)
    IN
    IF ~IsInitialized(v) THEN Thrown("ModelException")
    ELSE IF tokens = <<>> THEN Thrown("ModelException")
    ELSE IF SequenceTooLong(c, tokens) THEN Thrown("ModelException")
    ELSE IF EmbedTokens(c, w, tokens, 1) # "ok" THEN Thrown(EmbedTokens(c, w, tokens, 1))
    ELSE IF BlocksForward(c, w, 1, seq_len) # "ok" THEN Thrown(BlocksForward(c, w, 1, seq_len))
    ELSE IF logits = <<>> THEN Thrown("invalid_argument")
    ELSE IF ~Covers(logits, seq_len, c.vocab_size) THEN Thrown("out_of_range")
    ELSE [status |-> "ok", logits |-> LastPositionLogits(c, seq_len)]

---------------------------------------------------------------------------
(* The weight files a caller can hand to load_model_weights *)

FileDesc(kind, cfg, cut, field, value) ==
    [kind |-> kind, cfg |-> cfg, cut |-> cut, field |-> field, value |-> value]

\* Header field i (0 magic, 1 version, 2..8 the configuration) of f.
FieldPresent(f, i) == Len(f) >= 4 * (i + 1)

FieldAt(f, i) == SubSeq(f, 4 * i + 1, 4 * i + 4)

\* f with header field i overwritten by the 4-byte image of v.
PokeField(f, i, v) ==
    [j \in 1..Len(f) |-> IF j > 4 * i /\ j <= 4 * i + 4 THEN ToBytes(v, 4)[j - 4 * i] ELSE f[j]]

WRONG_MAGIC == 305419896
WRONG_VERSION == 999

\* Values that differ from what a well-formed file for c has in header field i.
PokeValues(c, i) ==
    IF i = 0 THEN {WRONG_MAGIC}
    ELSE IF i = 1 THEN {WRONG_VERSION}
    ELSE IF i = 8 THEN {0, DropoutTenth} \ {c.dropout_rate}
    ELSE {ConfigFields(c)[i - 1] + 1}

\* The bytes behind a descriptor; sv is the file save_model_weights wrote and
\* full the well-formed file for desc.cfg.
FileBytes(desc, sv, full) ==
    CASE desc.kind = "missing" -> [exists |-> FALSE, bytes |-> <<>>]
      [] desc.kind = "saved" -> [exists |-> sv.exists, bytes |-> sv.bytes]
      [] desc.kind = "test" -> [exists |-> TRUE, bytes |-> full]
      [] desc.kind = "prefix" -> [exists |-> TRUE, bytes |-> SubSeq(full, 1, desc.cut)]
      [] desc.kind = "extended" -> [exists |-> TRUE, bytes |-> Append(full, desc.value)]
      [] OTHER -> [exists |-> TRUE,
                   bytes |-> SubSeq(PokeField(full, desc.field, desc.value), 1, desc.cut)]

\* Files that are missing, well-formed for some configuration, or written by save.
PlainFiles(cfgs) ==
    {FileDesc("missing", DefaultConfig, 0, 0, 0), FileDesc("saved", DefaultConfig, 0, 0, 0)}
    \cup {FileDesc("test", c, 0, 0, 0) : c \in cfgs}

ExtraBytes == {0, 255}

\* Files made from a well-formed file for c: every proper prefix, one extra
\* byte appended, one header field overwritten (kept whole, or cut after the
\* header, or cut after the overwritten field).
DamagedFiles(c, n) ==
    {FileDesc("prefix", c, cut, 0, 0) : cut \in 0..(n - 1)}
    \cup {FileDesc("extended", c, n + 1, 0, b) : b \in ExtraBytes}
    \cup UNION {{FileDesc("poked", c, cut, i, v) : cut \in {n, HeaderSize, 4 * (i + 1)}}
                : <<i, v>> \in UNION {{<<j, u>> : u \in PokeValues(c, j)} : j \in 0..8}}

RecordSize(rec) == SizeofSizeT * Len(rec.dims) + SizeofFloat * Product(rec.dims)

\* The number of records of plan that fit entirely in the len bytes after pos.
RECURSIVE CompleteRecords(_, _, _, _)
CompleteRecords(plan, k, pos, len) ==
    IF k > Len(plan) \/ pos + RecordSize(plan[k]) > len THEN 0
    ELSE 1 + CompleteRecords(plan, k + 1, pos + RecordSize(plan[k]), len)

\* The number of checks (1 magic, 2 version, k + 2 for record k) whose locals a
\* load of len bytes with plan fills completely.
RECURSIVE FilledChecks(_, _, _, _)
FilledChecks(plan, k, pos, len) ==
    IF k > Len(plan) \/ pos + SizeofSizeT * Len(plan[k].dims) > len THEN 0
    ELSE 1 + FilledChecks(plan, k + 1, pos + RecordSize(plan[k]), len)

\* The number of checks whose locals a load of d fills completely.
Filled(c, d) ==
    IF Len(d.bytes) < SizeofU32 THEN 0
    ELSE IF Len(d.bytes) < 2 * SizeofU32 THEN 1
    ELSE IF Len(d.bytes) < HeaderSize THEN 2
    ELSE 2 + FilledChecks(LoadPlan(c), 1, HeaderSize, Len(d.bytes))

GarbageAfter(c, filled) == {0} \cup {g \in GarbageChoices(c) : g > filled}

\* The garbage choices that can make a difference for file d: none when d is
\* missing; otherwise a check whose locals are filled completely cannot be
\* failed by what the locals held before.
GarbageChoicesFor(c, d) == IF ~d.exists THEN {0} ELSE GarbageAfter(c, Filled(c, d))

\* What lastOp remembers of the file a load was given, observed on its bytes.
FileSummary(desc, d, c) ==
    [kind |-> desc.kind,
     cfg |-> IF desc.kind \in {"missing", "saved"} THEN c ELSE desc.cfg,
     field |-> desc.field,
     value |-> desc.value,
     records |-> IF ~d.exists \/ Len(d.bytes) < HeaderSize THEN -1
                 ELSE CompleteRecords(LoadPlan(c), 1, HeaderSize, Len(d.bytes)),
     magic |-> IF ~d.exists \/ ~FieldPresent(d.bytes, 0) THEN "absent"
               ELSE IF FieldAt(d.bytes, 0) = <<77, 76, 76, 84>> THEN "right" ELSE "wrong",
     version |-> IF ~d.exists \/ ~FieldPresent(d.bytes, 1) THEN "absent"
                 ELSE IF FieldAt(d.bytes, 1) = <<1, 0, 0, 0>> THEN "right" ELSE "wrong",
     differs |-> IF ~d.exists THEN {}
                 ELSE {i \in 1..7 : FieldPresent(d.bytes, i + 1)
                                    /\ FieldAt(d.bytes, i + 1) # ToBytes(ConfigFields(c)[i], 4)},
     filled |-> d.exists /\ Filled(c, d) = Len(LoadPlan(c)) + 2]

NoFile ==
    [kind |-> "none", cfg |-> DefaultConfig, field |-> 0, value |-> 0, records |-> -1,
     magic |-> "absent", version |-> "absent", differs |-> {}, filled |-> FALSE]

---------------------------------------------------------------------------
(* Bounds and the configurations explored *)

MaxInputLen == 2
MaxTokenId == 2
MaxPlainLoads == 1

SmallConfig == ModelConfig(1, 1, 1, 2, 1, 2, DropoutTenth)
NoDropoutConfig == ModelConfig(1, 1, 1, 2, 1, 2, 0)
NarrowFfnConfig == ModelConfig(1, 1, 1, 1, 1, 2, DropoutTenth)

LifecycleConfigs == {SmallConfig}
RoundTripConfigs == {SmallConfig, NoDropoutConfig, NarrowFfnConfig}
CodecConfigs == {SmallConfig, NarrowFfnConfig}

RECURSIVE SeqsUpTo(_, _)
SeqsUpTo(S, n) ==
    IF n = 0 THEN {<<>>}
    ELSE SeqsUpTo(S, n - 1) \cup {Append(q, x) : q \in SeqsUpTo(S, n - 1), x \in S}

TokenInputs == SeqsUpTo(-1..MaxTokenId, MaxInputLen)

\* 1.0f, the value the constructor sets
TemperatureOne == 1065353216

\* 1.0f and 0.5f
Temperatures == {TemperatureOne, 1056964608}

---------------------------------------------------------------------------
(* The state machine *)

Op(op, status, at, file, arg, result, fresh) ==
    [op |-> op, status |-> status, at |-> at, file |-> file, arg |-> arg,
     result |-> result, fresh |-> fresh]

NoSaved == [exists |-> FALSE, bytes |-> <<>>, cfg |-> DefaultConfig]
NoLoaded == [exists |-> FALSE, bytes |-> <<>>]
NoneUsed == [plain |-> 0, damaged |-> FALSE]

\* No generate_text call yet.
NoGen ==
    [valid |-> FALSE, config |-> DefaultConfig, tokenizer |-> NewVocabulary, weights |-> <<>>,
     temperature |-> 0, prompt |-> <<>>, max_tokens |-> 0, arg |-> 0, seed |-> FALSE,
     repeats |-> FALSE, status |-> "none",
     result |-> <<>>, encoded |-> <<>>, kept |-> <<>>, generated |-> <<>>, steps |-> <<>>,
     calls |-> <<>>, iterations |-> 0]

\* The instance is a TinyLlamaModel of its own, not the model_ of a TinyLlama.
NoFacade == [wrapped |-> FALSE, is_initialized_ |-> FALSE, temperature_set |-> FALSE]

\* TinyLlamaModel(config): a tokenizer holding the four special tokens, zero
\* embeddings and projection, one block per layer, temperature 1.0.
Init ==
    /\ config = SmallConfig
    /\ tokenizer = NewVocabulary
    /\ weights = FreshWeights(SmallConfig)
    /\ temperature = TemperatureOne
    /\ saved = NoSaved
    /\ loaded = NoLoaded
    /\ tokLoaded = FALSE
    /\ weightsLoaded = FALSE
    /\ pristine = TRUE
    /\ used = NoneUsed
    /\ lastGen = NoGen
    /\ facade = NoFacade
    /\ lastOp = Op("construct", "ok", <<0, "none">>, NoFile, <<>>, <<>>, TRUE)
    /\ matrix = Matrix_default
    /\ tensor = Tensor_default
    /\ disk = NoDisk
    /\ threads = ThreadsAtStart
    /\ call = NoCall

\* A new instance replaces the old one; files on disk stay.
Construct(c) ==
    /\ ConstructorAccepts(c)
    /\ config' = c
    /\ tokenizer' = NewVocabulary
    /\ weights' = FreshWeights(c)
    /\ temperature' = TemperatureOne
    /\ loaded' = NoLoaded
    /\ tokLoaded' = FALSE
    /\ weightsLoaded' = FALSE
    /\ pristine' = TRUE
    /\ lastOp' = Op("construct", "ok", <<0, "none">>, NoFile, <<>>, <<>>, TRUE)
    /\ UNCHANGED saved

LoadTokenizer(vocabExists, lines, mergesExists) ==
    LET r == LoadTokenizerModel(tokenizer, vocabExists, lines, mergesExists) IN
    /\ tokenizer' = r.v
    /\ tokLoaded' = (tokLoaded \/ r.status = "ok")
    /\ lastOp' = Op("load_tokenizer", r.status, <<0, "none">>, NoFile, lines, <<>>, pristine)
    /\ UNCHANGED <<config, weights, temperature, saved, loaded, weightsLoaded, pristine>>

\* load_model_weights has returned or thrown r for the file d that desc describes.
LoadReturns(desc, d, r) ==
    /\ weights' = r.w
    /\ weightsLoaded' = (weightsLoaded \/ r.status = "ok")
    /\ loaded' = IF r.status = "ok" /\ desc.kind \in {"test", "saved"}
                 THEN [exists |-> TRUE, bytes |-> d.bytes] ELSE NoLoaded
    /\ pristine' = FALSE
    /\ lastOp' = Op("load", r.status, r.at, FileSummary(desc, d, config), <<>>, <<>>, pristine)
    /\ UNCHANGED <<config, tokenizer, temperature, saved, tokLoaded>>

\* load_model_weights on file d, for every garbage choice that matters.
LoadWeights(desc, d) ==
    \E g \in GarbageChoicesFor(config, d) :
        LoadReturns(desc, d, LoadModelWeights(config, weights, d, g))

\* load_model_weights on a file that is missing, well-formed or saved.
LoadPlain(cfgs) ==
    \E desc \in PlainFiles(cfgs) :
        LoadWeights(desc, FileBytes(desc, saved, TestWeightFile(desc.cfg)))

LoadFamily(full) ==
    \E desc \in DamagedFiles(config, Len(full)) :
        LoadWeights(desc, FileBytes(desc, saved, full))

\* load_model_weights on a file made from the well-formed file for config.
LoadDamaged == LoadFamily(TestWeightFile(config))

SaveWeights ==
    /\ saved' = [exists |-> TRUE, bytes |-> SaveModelWeights(config, weights), cfg |-> config]
    /\ lastOp' = Op("save", "ok", <<0, "none">>, NoFile, <<>>, <<>>, pristine)
    /\ UNCHANGED <<config, tokenizer, weights, temperature, loaded, tokLoaded,
                   weightsLoaded, pristine>>

Forward(tokens) ==
    LET r == ForwardModel(config, tokenizer, weights, tokens) IN
    /\ lastOp' = Op("forward", r.status, <<0, "none">>, NoFile, tokens, r.logits, pristine)
    /\ UNCHANGED <<config, tokenizer, weights, temperature, saved, loaded, tokLoaded,
                   weightsLoaded, pristine>>

\* void set_temperature(float temperature) { temperature_ = temperature; }
SetTemperature(t) ==
    /\ temperature' = t
    /\ lastOp' = Op("set_temperature", "ok", <<0, "none">>, NoFile, <<t>>, <<>>, pristine)
    /\ UNCHANGED <<config, tokenizer, weights, saved, loaded, tokLoaded, weightsLoaded,
                   pristine>>

\* The life cycle of an instance: construction, the two loads, forward.
Next ==
    \/ \E c \in LifecycleConfigs : Construct(c) /\ UNCHANGED <<used, lastGen, facade, library>>
    \/ \E e \in BOOLEAN, lines \in VocabFiles, m \in BOOLEAN :
          LoadTokenizer(e, lines, m) /\ UNCHANGED <<used, lastGen, facade, library>>
    \/ LoadPlain(LifecycleConfigs) /\ UNCHANGED <<used, lastGen, facade, library>>
    \/ \E tokens \in TokenInputs : Forward(tokens) /\ UNCHANGED <<used, lastGen, facade, library>>
    \/ \E t \in Temperatures : SetTemperature(t) /\ UNCHANGED <<used, lastGen, facade, library>>

Spec == Init /\ [][Next]_vars

\* Saving and loading well-formed files, on any number of instances.
NextRoundTrip ==
    \/ \E c \in RoundTripConfigs : Construct(c) /\ UNCHANGED <<used, lastGen, facade, library>>
    \/ LoadPlain(RoundTripConfigs) /\ UNCHANGED <<used, lastGen, facade, library>>
    \/ SaveWeights /\ UNCHANGED <<used, lastGen, facade, library>>

SpecRoundTrip == Init /\ [][NextRoundTrip]_vars

\* Loading damaged files.  An instance is given at most MaxPlainLoads plain
\* files and then at most one damaged file: after a failed load the caller
\* discards the model and constructs a new one.
NextCodec ==
    \/ \E c \in CodecConfigs : Construct(c) /\ used' = NoneUsed /\ UNCHANGED <<lastGen, facade, library>>
    \/ /\ ~used.damaged /\ used.plain < MaxPlainLoads
       /\ used' = [used EXCEPT !.plain = @ + 1]
       /\ LoadPlain(CodecConfigs)
       /\ UNCHANGED <<lastGen, facade, library>>
    \/ /\ ~used.damaged
       /\ used' = [used EXCEPT !.damaged = TRUE]
       /\ LoadDamaged
       /\ UNCHANGED <<lastGen, facade, library>>

SpecCodec == Init /\ [][NextCodec]_vars

---------------------------------------------------------------------------
(* Properties *)

Ready == tokLoaded /\ weightsLoaded

\* C1: is_initialized() returns true only if a load_tokenizer call and a
\* load_model_weights call have both succeeded on the instance.
C1_InitializedOnlyAfterBothLoads == IsInitialized(tokenizer) => tokLoaded /\ weightsLoaded

\* C2: forward raises a Model error on every instance on which
\* load_model_weights has not succeeded, whatever its argument.
C2_ForwardNeedsWeights ==
    lastOp.op = "forward" /\ ~weightsLoaded => lastOp.status = "ModelException"

\* C3: a load raises FileIOException whenever a header field of the
\* configuration differs from the model's, even when magic and version are
\* right and every tensor record of the file has the expected size.
C3_AnyHeaderFieldMismatchFails ==
    (/\ lastOp.op = "load"
     /\ lastOp.file.magic = "right" /\ lastOp.file.version = "right"
     /\ lastOp.file.differs # {}
     /\ lastOp.file.records = Len(LoadPlan(config)))
    => lastOp.status = "FileIOException"

\* C4: a load of a file whose magic field is wrong, or whose magic is right and
\* whose version field is not 1, raises FileIOException at that check,
\* whatever follows the field, and changes no weight tensor.
C4_BadMagicOrVersionRaisesFirst ==
    [][(/\ lastOp'.op = "load"
        /\ \/ lastOp'.file.magic = "wrong"
           \/ lastOp'.file.magic = "right" /\ lastOp'.file.version = "wrong")
       => /\ lastOp'.status = "FileIOException"
          /\ lastOp'.at = IF lastOp'.file.magic = "wrong" THEN <<0, "magic">>
                          ELSE <<0, "version">>
          /\ weights' = weights]_vars

\* A wrong version after the right magic, with a whole body behind the header.
C4_Witness ==
    /\ lastOp.op = "load" /\ lastOp.status = "FileIOException"
    /\ lastOp.file.magic = "right" /\ lastOp.file.version = "wrong"
    /\ lastOp.file.records = Len(LoadPlan(config))

\* C5: a load of a proper prefix of a well-formed file for the model's
\* configuration raises FileIOException.  Stated for the prefixes that hold the
\* whole header and every dimension field, so for a cut inside the payload of
\* the output projection, where every value the load compares comes from the
\* file.
C5_ProperPrefixRaises ==
    lastOp.op = "load" /\ lastOp.file.kind = "prefix" /\ lastOp.file.filled
    => lastOp.status = "FileIOException"

\* C6: a load of a well-formed file for the model's configuration followed by
\* one more byte raises FileIOException at the end-of-file probe.
C6_TrailingByteRaises ==
    lastOp.op = "load" /\ lastOp.file.kind = "extended"
    => lastOp.status = "FileIOException" /\ lastOp.at = <<0, "trailing">>

C6_Witness ==
    /\ lastOp.op = "load" /\ lastOp.file.kind = "extended"
    /\ lastOp.file.records = Len(LoadPlan(config))
    /\ lastOp.status = "FileIOException"

RECURSIVE PlanSize(_, _)
PlanSize(plan, k) == IF k > Len(plan) THEN 0 ELSE RecordSize(plan[k]) + PlanSize(plan, k + 1)

\* C7: the file save_model_weights wrote for a model of some configuration is
\* accepted by load_model_weights on a model of the same configuration: the
\* load returns normally, the file has exactly the length the records of the
\* load take, and the model then holds the tensors stored in the file.
C7_SavedFileLoads ==
    (lastOp.op = "load" /\ lastOp.file.kind = "saved" /\ saved.exists /\ saved.cfg = config)
    => /\ lastOp.status = "ok"
       /\ Len(saved.bytes) = HeaderSize + PlanSize(LoadPlan(config), 1)
       /\ weights = TensorsOfFile(saved.bytes, LoadPlan(config), 1, HeaderSize)

\* The saved file of a model that had loaded a file before, loaded by a fresh one.
C7_Witness ==
    /\ lastOp.op = "load" /\ lastOp.file.kind = "saved" /\ lastOp.fresh
    /\ saved.exists /\ saved.cfg = config
    /\ lastOp.status = "ok"
    /\ weights[<<0, "embedding">>] # FreshWeights(config)[<<0, "embedding">>]

\* C8: when a model has loaded a well-formed file F and is then saved to G,
\* every tensor stored in G equals the tensor at the same place in F.
C8_LoadThenSaveReproduces ==
    lastOp.op = "save" /\ loaded.exists
    => TensorsOfFile(saved.bytes, LoadPlan(config), 1, HeaderSize)
       = TensorsOfFile(loaded.bytes, LoadPlan(config), 1, HeaderSize)

\* The place of tensor id among the records of plan.
RecordIndex(plan, id) == CHOOSE k \in 1..Len(plan) : plan[k].id = id

\* The last tensor read by the helper that reads the tensor called name.
LastOfHelper(name) ==
    IF name \in {"query", "key", "value", "output"} THEN "output"
    ELSE IF name \in {"linear1", "bias1", "linear2", "bias2"} THEN "bias2"
    ELSE IF name \in {"ln1_weight", "ln1_bias", "ln2_weight", "ln2_bias"} THEN "ln2_bias"
    ELSE name

\* The number of the record at whose check a load raised: 0 for the checks
\* before the first record, one past the last record for the probe.
FailIndex(plan, at) ==
    IF at[2] \in {"open", "magic", "version", "config"} THEN 0
    ELSE IF at[2] = "trailing" THEN Len(plan) + 1
    ELSE RecordIndex(plan, at)

Changed(w0, w1) == {id \in DOMAIN w0 : w1[id] # w0[id]}

\* Every changed tensor was read by a helper that finished before record fail.
ReadBefore(plan, changed, fail) ==
    \A id \in changed : RecordIndex(plan, <<id[1], LastOfHelper(id[2])>>) < fail

\* C9 as stated: whenever a load raises, every weight tensor has the value it
\* had before the call.
C9_AllOrNothing ==
    [][lastOp'.op = "load" /\ lastOp'.status = "FileIOException" => weights' = weights]_vars

\* C9 amended: whenever a load raises, a tensor has the value it had before the
\* call unless the helper reading it had finished before the failing check; a
\* failure at the open, magic, version or configuration check, or at the
\* dimension check of the embeddings, changes no tensor.
C9_RaisingLoadFrame ==
    [][lastOp'.op = "load" /\ lastOp'.status = "FileIOException"
       => ReadBefore(LoadPlan(config), Changed(weights, weights'),
                     FailIndex(LoadPlan(config), lastOp'.at))]_vars

\* A fresh model whose load raised at a block's linear1 check: the attention
\* tensors read before it are in the model, linear1 is as constructed.
C9_Witness ==
    /\ lastOp.op = "load" /\ lastOp.status = "FileIOException" /\ lastOp.fresh
    /\ lastOp.at = <<1, "linear1">>
    /\ weights[<<1, "query">>] # FreshWeights(config)[<<1, "query">>]
    /\ weights[<<1, "linear1">>] = FreshWeights(config)[<<1, "linear1">>]

\* The arguments forward rejects.
Rejected(c, tokens) ==
    \/ tokens = <<>>
    \/ Len(tokens) > c.max_sequence_length
    \/ \E i \in 1..Len(tokens) : tokens[i] \notin 0..(c.vocab_size - 1)

\* C10: on a Ready model forward raises a Model error exactly when tokens is
\* empty, longer than max_sequence_length or holds an id outside
\* [0, vocab_size); otherwise it returns vocab_size logits, those of the last
\* position; weights, config and temperature are unchanged either way.
C10_ForwardOnReadyModel ==
    [][lastOp'.op = "forward" /\ Ready
       => /\ lastOp'.status = "ModelException" <=> Rejected(config, lastOp'.arg)
          /\ ~Rejected(config, lastOp'.arg)
             => /\ lastOp'.status = "ok"
                /\ Len(lastOp'.result) = config.vocab_size
                /\ \A i \in 1..config.vocab_size :
                      lastOp'.result[i] = <<Len(lastOp'.arg) - 1, i - 1>>
          /\ UNCHANGED <<weights, config, temperature>>]_vars

\* forward has returned logits on a Ready model whose temperature was changed.
C10_Witness ==
    /\ lastOp.op = "forward" /\ Ready /\ lastOp.status = "ok"
    /\ Len(lastOp.result) = config.vocab_size
    /\ temperature # TemperatureOne

---------------------------------------------------------------------------
(* Causal attention *)

\* The longest sequence the attention is applied to.
MaxMaskLen == 3

\* scores(i, j) = -1e9f for a masked position
MASK_FILL == -1000000000

\* Q, K and V of one head of dimension 1.  The floats are integers the code's
\* arithmetic is exact on: a score is 0 or Q * K = -2e9, so a difference of
\* scores is 0 or at most -1e9.
QueryValues == {0, 1}
KeyValues == {0, 2 * MASK_FILL}
ValueValues == {1, 2}

\* TinyLlamaModel::create_attention_mask(n); row i, column j are 1-based here.
create_attention_mask(n) == [i \in 1..n |-> [j \in 1..n |-> IF j <= i THEN 1 ELSE 0]]

\* Row i of Q * K^T scaled by 1 / sqrt(1), with the masked entries replaced.
ScoreRow(Q, K, mask, i) ==
    [j \in 1..Len(K) |-> IF mask[i][j] = 0 THEN MASK_FILL ELSE Q[i] * K[j]]

RECURSIVE RowMax(_, _)
RowMax(row, j) ==
    IF j = Len(row) THEN row[j]
    ELSE IF row[j] > RowMax(row, j + 1) THEN row[j] ELSE RowMax(row, j + 1)

\* std::exp(score - max_val) in float: 1 for a difference of 0, and 0 (underflow)
\* for the other differences of the model, all at most -1e9.
ExpOf(diff) == IF diff = 0 THEN 1 ELSE 0

ExpRow(row) == [j \in 1..Len(row) |-> ExpOf(row[j] - RowMax(row, 1))]

RECURSIVE SumRow(_, _)
SumRow(row, j) == IF j > Len(row) THEN 0 ELSE row[j] + SumRow(row, j + 1)

\* Row i of attention_weights * V: the terms exp_values[j] * V[j] of its sum and
\* the sum_exp every one of them is divided by.
AttentionRow(Q, K, V, mask, i) ==
    [sum_exp |-> SumRow(ExpRow(ScoreRow(Q, K, mask, i)), 1),
     terms |-> [j \in 1..Len(V) |-> ExpRow(ScoreRow(Q, K, mask, i))[j] * V[j]]]

\* MultiHeadAttention::scaled_dot_product_attention(Q, K, V, mask)
scaled_dot_product_attention(Q, K, V, mask) ==
    [i \in 1..Len(Q) |-> AttentionRow(Q, K, V, mask, i)]

\* Attention under the mask forward builds for a sequence of Len(Q) positions.
MaskedAttention(Q, K, V) ==
    /\ lastOp' = Op("attention", "ok", <<0, "none">>, NoFile,
                    [Q |-> Q, K |-> K, V |-> V, mask |-> create_attention_mask(Len(Q))],
                    scaled_dot_product_attention(Q, K, V, create_attention_mask(Len(Q))),
                    pristine)
    /\ UNCHANGED <<config, tokenizer, weights, temperature, saved, loaded, tokLoaded,
                   weightsLoaded, pristine, used, lastGen, facade, library>>

NextAttention ==
    \E n \in 1..MaxMaskLen :
        \E Q \in [1..n -> QueryValues], K \in [1..n -> KeyValues], V \in [1..n -> ValueValues] :
            MaskedAttention(Q, K, V)

SpecAttention == Init /\ [][NextAttention]_vars

\* K2, V2 agree with K, V on the rows up to i.
SamePast(K, V, K2, V2, i) == \A j \in 1..i : K2[j] = K[j] /\ V2[j] = V[j]

\* C11: the mask forward builds for n positions is n x n with mask[i][j] = 1
\* exactly when j <= i, and under it row i of the attention output is the same
\* for any two inputs that differ only in the K and V rows after i.
C11_MaskedAttentionIsCausal ==
    lastOp.op = "attention"
    => LET a == lastOp.arg
           n == Len(lastOp.arg.Q)
       IN /\ DOMAIN a.mask = 1..n
          /\ \A i \in 1..n : DOMAIN a.mask[i] = 1..n
          /\ \A i, j \in 1..n : a.mask[i][j] = 1 <=> j <= i
          /\ \A i \in 1..n :
                \A K2 \in [1..n -> KeyValues], V2 \in [1..n -> ValueValues] :
                    SamePast(a.K, a.V, K2, V2, i)
                    => AttentionRow(a.Q, K2, V2, a.mask, i) = lastOp.result[i]

---------------------------------------------------------------------------
(* Floats compared: a float is its IEEE-754 image read as a 32-bit integer *)

MinInt32 == -2147483647 - 1

\* The image without its sign bit.
FloatMag(b) == IF b < 0 THEN b - MinInt32 ELSE b

\* The image of +infinity, 0x7F800000.
INFINITY_IMAGE == 2139095040

FloatIsNaN(b) == FloatMag(b) > INFINITY_IMAGE

\* std::isfinite
FloatIsFinite(b) == FloatMag(b) < INFINITY_IMAGE

FloatKey(b) == IF b < 0 THEN 0 - FloatMag(b) ELSE b

\* a < b on floats: false when either is a NaN, -0.0 equals +0.0.
FloatLess(a, b) == ~FloatIsNaN(a) /\ ~FloatIsNaN(b) /\ FloatKey(a) < FloatKey(b)

---------------------------------------------------------------------------
(* Tokenizing: texts are sequences of characters without white space, and the
   merges file holds no rule, so bpe_encode yields the characters *)

\* Vocabulary::get_token_id
GetTokenId(v, token) ==
    IF token \in DOMAIN v.token_to_id THEN v.token_to_id[token] ELSE v.token_to_id[UNK_TOKEN]

\* Vocabulary::get_token
GetToken(v, id) ==
    IF id < 0 \/ id >= Len(v.id_to_token) THEN v.id_to_token[v.token_to_id[UNK_TOKEN] + 1]
    ELSE v.id_to_token[id + 1]

\* Vocabulary::eos_id
EosId(v) == v.token_to_id[EOS_TOKEN]

\* BPETokenizer::encode
Encode(v, text) == [k \in 1..Len(text) |-> GetTokenId(v, text[k])]

\* BPETokenizer::decode; the string is kept as the sequence of its token strings.
Decode(v, tokens) == [k \in 1..Len(tokens) |-> GetToken(v, tokens[k])]

---------------------------------------------------------------------------
(* generate_text *)

\* if (next_token == 2) break;
MOCK_EOS == 2

\* float temp = temperature > 0 ? temperature : temperature_;
SoftmaxTemperature(arg, member) == IF FloatLess(0, arg) THEN arg ELSE member

\* The state of the generation loop: the tokens so far, the samplings made (the
\* tokens forward was given, the divisor of softmax, the token sample_token
\* returned), the arguments of the forward calls, the loop bodies entered.
GenState(status, tokens, steps, calls, iterations) ==
    [status |-> status, tokens |-> tokens, steps |-> steps, calls |-> calls,
     iterations |-> iterations]

GenStep(tokens, temp, next) == [tokens |-> tokens, temp |-> temp, next |-> next]

RECURSIVE GenerateLoop(_, _, _, _, _, _, _, _)

\* After tokens.push_back(next): stop at the mock end-of-sequence id.
Sampled(c, v, w, temp, max_tokens, picks, i, r, next) ==
    IF next = MOCK_EOS THEN r ELSE GenerateLoop(c, v, w, temp, max_tokens, picks, i + 1, r)

\* After forward has returned or thrown f in loop body i.  The floating-point
\* result of softmax and of the argmax in sample_token is picks[i + 1], an index
\* of the logits.
Forwarded(c, v, w, temp, max_tokens, picks, i, r, f) ==
    IF f.status # "ok"
    THEN GenState(f.status, r.tokens, r.steps, Append(r.calls, r.tokens), i + 1)
    ELSE IF f.logits = <<>>
    THEN GenState("ModelException", r.tokens, r.steps, Append(r.calls, r.tokens), i + 1)
    ELSE Sampled(c, v, w, temp, max_tokens, picks, i,
                 GenState("ok", Append(r.tokens, picks[i + 1]),
                          Append(r.steps, GenStep(r.tokens, temp, picks[i + 1])),
                          Append(r.calls, r.tokens), i + 1),
                 picks[i + 1])

\* A length check that lets a full sequence through.
SequenceFullLate(c, tokens) == Len(tokens) > c.max_sequence_length

\* if (tokens.size() >= config_.max_sequence_length) break;
SequenceFull(c, tokens) == Len(tokens) >= c.max_sequence_length

\* for (int i = 0; i < max_tokens; ++i) from iteration i on
GenerateLoop(c, v, w, temp, max_tokens, picks, i, r) ==
    IF i >= max_tokens THEN r
    ELSE IF SequenceFull(c, r.tokens)
    THEN GenState("ok", r.tokens, r.steps, r.calls, i + 1)
    ELSE Forwarded(c, v, w, temp, max_tokens, picks, i, r, ForwardModel(c, v, w, r.tokens))

\* if (tokens.size() >= max_sequence_length) tokens.resize(max_sequence_length - 1);
\* resize(size_t(-1)) throws std::length_error.
Truncated(c, tokens) ==
    IF Len(tokens) < c.max_sequence_length THEN [status |-> "ok", tokens |-> tokens]
    ELSE IF c.max_sequence_length = 0 THEN [status |-> "length_error", tokens |-> tokens]
    ELSE [status |-> "ok", tokens |-> SubSeq(tokens, 1, c.max_sequence_length - 1)]

\* What a generate_text call returns: its outcome and what it went through.
GenReturn(v, prompt, encoded, kept, r) ==
    [status |-> r.status,
     result |-> IF r.status = "ok"
                THEN prompt \o Decode(v, SubSeq(r.tokens, Len(kept) + 1, Len(r.tokens)))
                ELSE <<>>,
     encoded |-> encoded, kept |-> kept,
     generated |-> SubSeq(r.tokens, Len(kept) + 1, Len(r.tokens)),
     steps |-> r.steps, calls |-> r.calls, iterations |-> r.iterations]

GenerateFrom(c, v, w, temp, prompt, max_tokens, picks, encoded, t) ==
    IF t.status # "ok"
    THEN GenReturn(v, prompt, encoded, <<>>, GenState(t.status, <<>>, <<>>, <<>>, 0))
    ELSE GenReturn(v, prompt, encoded, t.tokens,
                   GenerateLoop(c, v, w, temp, max_tokens, picks, 0,
                                GenState("ok", t.tokens, <<>>, <<>>, 0)))

\* TinyLlamaModel::generate_text(prompt, max_tokens, temperature) on a model with
\* config c, tokenizer v, weights w and temperature_ member.
GenerateText(c, v, w, member, prompt, max_tokens, arg, picks) ==
    IF ~IsInitialized(v) \/ max_tokens <= 0
    THEN GenReturn(v, prompt, <<>>, <<>>, GenState("ModelException", <<>>, <<>>, <<>>, 0))
    ELSE GenerateFrom(c, v, w, SoftmaxTemperature(arg, member), prompt, max_tokens, picks,
                      Encode(v, prompt), Truncated(c, Encode(v, prompt)))

\* What the floating-point result of a sampling depends on: the weights and
\* shapes forward computes with, the tokens it is given, the divisor of softmax.
\* seed stands for state outside the model that an earlier call has changed;
\* nothing in the code reads any.
ArithKeySeeded(c, w, step, seed) == <<c, w, step.tokens, step.temp, seed>>

ArithKey(c, w, step, seed) == <<c, w, step.tokens, step.temp>>

\* The samplings of a call agree with those of the last call: the arithmetic
\* gives the same result on the same operands.
SameArithmetic(c, w, steps, seed, last) ==
    \A i \in 1..Len(steps), j \in 1..Len(last.steps) :
        ArithKey(c, w, steps[i], seed)
            = ArithKey(last.config, last.weights, last.steps[j], last.seed)
        => steps[i].next = last.steps[j].next

\* The entries of picks no sampling used are 0.
Canonical(picks, steps) == \A k \in (Len(steps) + 1)..Len(picks) : picks[k] = 0

\* The call is the last call again: same arguments, on a model holding the
\* config, tokenizer, weights and temperature the last call was made on.
RepeatsLast(prompt, max_tokens, arg) ==
    /\ lastGen.valid
    /\ lastGen.config = config /\ lastGen.tokenizer = tokenizer
    /\ lastGen.weights = weights /\ lastGen.temperature = temperature
    /\ lastGen.prompt = prompt /\ lastGen.max_tokens = max_tokens /\ lastGen.arg = arg

GenerateRecorded(prompt, max_tokens, arg, r) ==
    /\ lastGen' = [valid |-> TRUE, config |-> config, tokenizer |-> tokenizer,
                   weights |-> weights, temperature |-> temperature, prompt |-> prompt,
                   max_tokens |-> max_tokens, arg |-> arg, seed |-> lastGen.valid,
                   repeats |-> RepeatsLast(prompt, max_tokens, arg),
                   status |-> r.status, result |-> r.result, encoded |-> r.encoded,
                   kept |-> r.kept, generated |-> r.generated, steps |-> r.steps,
                   calls |-> r.calls, iterations |-> r.iterations]
    /\ UNCHANGED <<config, tokenizer, weights, temperature, saved, loaded, tokLoaded,
                   weightsLoaded, pristine>>

GenerateReturns(prompt, max_tokens, arg, r) ==
    /\ GenerateRecorded(prompt, max_tokens, arg, r)
    /\ lastOp' = Op("generate", r.status, <<0, "none">>, NoFile, prompt, r.result, pristine)

GenerateSampled(prompt, max_tokens, arg, picks, r) ==
    /\ Canonical(picks, r.steps)
    /\ SameArithmetic(config, weights, r.steps, lastGen.valid, lastGen)
    /\ GenerateReturns(prompt, max_tokens, arg, r)

\* The most samplings a call can make from loop body i on: one per loop body
\* entered with room left in the sequence.
RECURSIVE MaxSamplings(_, _, _, _)
MaxSamplings(c, tokens, max_tokens, i) ==
    IF i >= max_tokens \/ SequenceFull(c, tokens) THEN 0
    ELSE 1 + MaxSamplings(c, Append(tokens, 0), max_tokens, i + 1)

\* The samplings a call could need, one result for each.
Samplings(c, v, prompt, max_tokens) ==
    [1..MaxSamplings(c, Truncated(c, Encode(v, prompt)).tokens, max_tokens, 0)
        -> 0..(c.vocab_size - 1)]

\* generate_text(prompt, max_tokens, temperature) on the instance.
Generate(prompt, max_tokens, arg) ==
    \E picks \in Samplings(config, tokenizer, prompt, max_tokens) :
        GenerateSampled(prompt, max_tokens, arg, picks,
                        GenerateText(config, tokenizer, weights, temperature, prompt,
                                     max_tokens, arg, picks))

\* The longest prompt and the largest max_tokens explored.
MaxPromptLen == 3
MaxNewTokens == 2

\* A configuration with room for a prompt and generated tokens, whose
\* vocab_size covers the ids of the four special tokens.
GenConfig == ModelConfig(1, 1, 1, 1, 3, 4, DropoutTenth)

GenerateConfigs == {SmallConfig, GenConfig}

\* "a" is in the vocabulary files, "z" in none.
Prompts == {<<"a">>} \cup SeqsUpTo({"z"}, MaxPromptLen)

\* The vocabulary file of the models that generate.
GenVocabFiles == {<< VocabLine("a", -1), VocabLine("b", -1) >>}

\* The temperature arguments: 0.0f (use temperature_) and the default 1.0f.
TemperatureArgs == {0, TemperatureOne}

\* generate_text on models of their own: construction, the two loads,
\* generate_text.  Only the call just made is remembered.
NextGenerate ==
    \/ \E c \in GenerateConfigs :
          Construct(c) /\ lastGen' = NoGen /\ UNCHANGED <<used, facade, library>>
    \/ \E lines \in GenVocabFiles :
          LoadTokenizer(TRUE, lines, TRUE) /\ lastGen' = NoGen /\ UNCHANGED <<used, facade, library>>
    \/ LoadPlain(GenerateConfigs) /\ lastGen' = NoGen /\ UNCHANGED <<used, facade, library>>
    \/ \E prompt \in Prompts, n \in 0..MaxNewTokens, arg \in TemperatureArgs :
          Generate(prompt, n, arg) /\ UNCHANGED <<used, facade, library>>

SpecGenerate == Init /\ [][NextGenerate]_vars

---------------------------------------------------------------------------
(* Properties of generate_text *)

\* The generate_text call just made, on a model whose tokenizer and weights
\* are loaded, with max_tokens >= 1.
GeneratedOnReady == lastOp.op = "generate" /\ lastGen.valid /\ Ready /\ lastGen.max_tokens >= 1

\* The tokens of the sequence when the call ended.
FinalTokens == lastGen.kept \o lastGen.generated

\* C12: a generate_text call on a Ready model with max_tokens >= 1 ends after
\* at most max_tokens loop iterations, has appended at most max_tokens tokens,
\* never holds a sequence longer than max_sequence_length and never gives
\* forward more than max_sequence_length tokens.
C12_GenerationIsBounded ==
    GeneratedOnReady =>
        /\ lastGen.iterations <= lastGen.max_tokens
        /\ Len(lastGen.generated) <= lastGen.max_tokens
        /\ Len(FinalTokens) <= config.max_sequence_length
        /\ \A k \in 1..Len(lastGen.calls) :
               Len(lastGen.calls[k]) <= config.max_sequence_length

\* A call that filled the sequence with its first token and left the loop in
\* its second iteration at the length check.
C12_Witness ==
    /\ GeneratedOnReady
    /\ lastGen.status = "ok"
    /\ lastGen.max_tokens = 2
    /\ lastGen.iterations = 2
    /\ Len(lastGen.generated) = 1
    /\ lastGen.generated[1] # MOCK_EOS
    /\ Len(lastGen.calls) = 1
    /\ Len(FinalTokens) = config.max_sequence_length

\* The prompt of the call tokenized to at least max_sequence_length tokens, all
\* of them ids the embedding table has.
PromptFillsSequence ==
    /\ GeneratedOnReady
    /\ Len(lastGen.encoded) >= config.max_sequence_length
    /\ \A k \in 1..Len(lastGen.encoded) : lastGen.encoded[k] < config.vocab_size

\* C13: when the tokenized prompt has at least max_sequence_length tokens,
\* generate_text keeps its first max_sequence_length - 1 tokens, succeeds and
\* generates exactly one token, whatever positive max_sequence_length and
\* max_tokens >= 1.
C13_TruncationLeavesRoomForOneToken ==
    PromptFillsSequence =>
        /\ lastGen.kept = SubSeq(lastGen.encoded, 1, config.max_sequence_length - 1)
        /\ lastGen.status = "ok"
        /\ Len(lastGen.generated) = 1

\* The end-of-sequence id of the model's tokenizer.
EosOfCall == EosId(lastGen.tokenizer)

\* C14: the loop of generate_text stops right after the first generated token
\* equal to the tokenizer's eos_id(), and a generated token with another id
\* does not stop it: the call then ends at max_tokens or max_sequence_length.
C14_StopsAtEosOnly ==
    (GeneratedOnReady /\ lastGen.status = "ok") =>
        /\ \A k \in 1..(Len(lastGen.generated) - 1) : lastGen.generated[k] # EosOfCall
        /\ (\A k \in 1..Len(lastGen.generated) : lastGen.generated[k] # EosOfCall)
              => \/ Len(lastGen.generated) = lastGen.max_tokens
                 \/ Len(FinalTokens) = config.max_sequence_length

---------------------------------------------------------------------------
(* generate_text called again *)

\* Prompts of one and two tokens.
DetPrompts == {<<"z">>, <<"z", "z">>}

\* A configuration whose vocab_size covers the id the loop stops at.
DetConfig == ModelConfig(1, 1, 1, 1, 3, 3, DropoutTenth)

\* set_temperature(0.5f)
DetTemperatures == {1056964608}

\* The temperature argument 0.0f: softmax divides by temperature_.
DetTemperatureArgs == {0}

\* Calls of generate_text with the last call remembered across the other
\* operations: on the same instance, or on a new one loaded from the same files.
NextDeterminism ==
    \/ Construct(DetConfig) /\ UNCHANGED <<used, lastGen, facade, library>>
    \/ \E lines \in GenVocabFiles :
          LoadTokenizer(TRUE, lines, TRUE) /\ UNCHANGED <<used, lastGen, facade, library>>
    \/ \E desc \in {FileDesc("test", DetConfig, 0, 0, 0)} :
          LoadWeights(desc, FileBytes(desc, saved, TestWeightFile(desc.cfg)))
              /\ UNCHANGED <<used, lastGen, facade, library>>
    \/ \E t \in DetTemperatures : SetTemperature(t) /\ UNCHANGED <<used, lastGen, facade, library>>
    \/ \E prompt \in DetPrompts, n \in 1..MaxNewTokens, arg \in DetTemperatureArgs :
          Generate(prompt, n, arg) /\ UNCHANGED <<used, facade, library>>

SpecDeterminism == Init /\ [][NextDeterminism]_vars

\* A generate_text call was just made with the arguments of the call before it,
\* on a model holding equal config, tokenizer, weights and temperature.
SameCallAgain ==
    /\ lastOp'.op = "generate"
    /\ lastGen.valid
    /\ lastGen'.config = lastGen.config /\ lastGen'.tokenizer = lastGen.tokenizer
    /\ lastGen'.weights = lastGen.weights /\ lastGen'.temperature = lastGen.temperature
    /\ lastGen'.prompt = lastGen.prompt /\ lastGen'.max_tokens = lastGen.max_tokens
    /\ lastGen'.arg = lastGen.arg

---------------------------------------------------------------------------
(* The facade TinyLlama over its model_ *)

\* TinyLlama() makes model_ with the default configuration, whose weight file
\* has millions of bytes; model_ is given a configuration of the same shape
\* scaled down, so that its files can be enumerated.
FacadeConfig == GenConfig

\* The exception classes derived from TinyLlamaException.
TinyLlamaExceptions ==
    {"TokenizerException", "ModelException", "FileIOException", "ConfigurationException",
     "MemoryException"}

\* catch (const TinyLlamaException&) { throw; } catch (const std::exception&) { wrap }
Rethrown(status, wrap) ==
    IF status = "ok" \/ status \in TinyLlamaExceptions THEN status ELSE wrap

\* A string argument: its first characters and the number of characters after
\* them.  "NUL" is the character '\0'.
Text(body, padding) == [body |-> body, padding |-> padding]

StringLength(t) == Len(t.body) + t.padding

MAX_STRING_LENGTH == 1000000

validate_string_input(input, allow_empty) ==
    IF ~allow_empty /\ StringLength(input) = 0 THEN "ConfigurationException"
    ELSE IF \E k \in 1..Len(input.body) : input.body[k] = "NUL" THEN "ConfigurationException"
    ELSE IF StringLength(input) > MAX_STRING_LENGTH THEN "ConfigurationException"
    ELSE "ok"

\* A path names nothing ("missing"), a file or a directory.
validate_file_path(kind) == IF kind = "file" THEN "ok" ELSE "FileIOException"

validate_directory_path(kind) == IF kind = "dir" THEN "ok" ELSE "FileIOException"

MAX_REASONABLE_VALUE == 1000000

validate_positive_integer(value, min_value) ==
    IF value < min_value THEN "ConfigurationException"
    ELSE IF value > MAX_REASONABLE_VALUE THEN "ConfigurationException"
    ELSE "ok"

\* 1000.0f
MAX_REASONABLE_FLOAT == 1148846080

\* The range checks without the std::isfinite check.
validate_positive_float_unchecked(value, min_value) ==
    IF FloatLess(value, min_value) THEN "ConfigurationException"
    ELSE IF FloatLess(MAX_REASONABLE_FLOAT, value) THEN "ConfigurationException"
    ELSE "ok"

validate_positive_float(value, min_value) ==
    IF FloatLess(value, min_value) THEN "ConfigurationException"
    ELSE IF ~FloatIsFinite(value) THEN "ConfigurationException"
    ELSE IF FloatLess(MAX_REASONABLE_FLOAT, value) THEN "ConfigurationException"
    ELSE "ok"

\* A vector of token ids: its first ids and the number of ids after them.
TokenIds(ids, more) == [ids |-> ids, more |-> more]

MAX_TOKEN_COUNT == 100000

validate_token_ids(token_ids) ==
    IF Len(token_ids.ids) + token_ids.more = 0 THEN "ok"
    ELSE IF Len(token_ids.ids) + token_ids.more > MAX_TOKEN_COUNT THEN "ConfigurationException"
    ELSE IF \E k \in 1..Len(token_ids.ids) : token_ids.ids[k] < 0 THEN "ConfigurationException"
    ELSE "ok"

\* What an initialize call leaves: its outcome, is_initialized_, the tokenizer
\* and weights of model_, the calls made on model_.
InitOutcome(status, init, v, w, calls, d) ==
    [status |-> status, is_initialized_ |-> init, v |-> v, w |-> w, calls |-> calls, d |-> d]

\* load_model_weights has returned or thrown r inside initialize_with_config.
WeightsLoadedInto(v, d, r) ==
    InitOutcome(Rethrown(r.status, "ModelException"), r.status = "ok", v, r.w,
                <<"load_tokenizer", "load_model_weights">>, d)

\* The try block of initialize_with_config; load_tokenizer has returned or thrown t.
TokenizerLoadedInto(c, w, d, g, t) ==
    IF t.status # "ok"
    THEN InitOutcome(Rethrown(t.status, "ModelException"), FALSE, t.v, w,
                     <<"load_tokenizer">>, d)
    ELSE WeightsLoadedInto(t.v, d, LoadModelWeights(c, w, d, g))

\* initialize_with_config without its re-initialization guard.
InitializeWithConfigAgain(fac, c, v, w, vocabKind, lines, mergesKind, weightsKind, d, g) ==
    IF validate_file_path(vocabKind) # "ok" \/ validate_file_path(mergesKind) # "ok"
       \/ validate_file_path(weightsKind) # "ok"
    THEN InitOutcome("FileIOException", fac.is_initialized_, v, w, <<>>, d)
    ELSE TokenizerLoadedInto(c, w, d, g,
                             LoadTokenizerModel(v, vocabKind = "file", lines,
                                                mergesKind = "file"))

\* TinyLlama::initialize_with_config on a facade fac over a model with config c,
\* tokenizer v and weights w.
InitializeWithConfig(fac, c, v, w, vocabKind, lines, mergesKind, weightsKind, d, g) ==
    IF validate_file_path(vocabKind) # "ok" \/ validate_file_path(mergesKind) # "ok"
       \/ validate_file_path(weightsKind) # "ok"
    THEN InitOutcome("FileIOException", fac.is_initialized_, v, w, <<>>, d)
    ELSE IF fac.is_initialized_
    THEN InitOutcome("ModelException", TRUE, v, w, <<>>, d)
    ELSE TokenizerLoadedInto(c, w, d, g,
                             LoadTokenizerModel(v, vocabKind = "file", lines,
                                                mergesKind = "file"))

\* TinyLlama::initialize(model_path); the three files are those in the directory.
Initialize(fac, c, v, w, pathKind, vocabKind, lines, mergesKind, weightsKind, d, g) ==
    IF validate_directory_path(pathKind) # "ok"
    THEN InitOutcome("FileIOException", fac.is_initialized_, v, w, <<>>, d)
    ELSE IF fac.is_initialized_
    THEN InitOutcome("ModelException", TRUE, v, w, <<>>, d)
    ELSE InitializeWithConfig(fac, c, v, w, vocabKind, lines, mergesKind, weightsKind, d, g)

\* A facade call that changes neither the facade nor model_.
FacadeReturns(op, status, arg, result) ==
    /\ lastOp' = Op(op, status, <<0, "none">>, NoFile, arg, result, pristine)
    /\ lastGen' = NoGen
    /\ UNCHANGED <<config, tokenizer, weights, temperature, saved, loaded, tokLoaded,
                   weightsLoaded, pristine, used, facade, library>>

\* TinyLlama::TinyLlama()
TinyLlama_TinyLlama ==
    /\ Construct(FacadeConfig)
    /\ facade' = [wrapped |-> TRUE, is_initialized_ |-> FALSE, temperature_set |-> FALSE]
    /\ lastGen' = NoGen
    /\ UNCHANGED <<used, library>>

\* An initialize call has returned or thrown out.
Initialized(op, arg, out) ==
    /\ facade.wrapped
    /\ facade' = [facade EXCEPT !.is_initialized_ = out.is_initialized_]
    /\ tokenizer' = out.v
    /\ weights' = out.w
    /\ tokLoaded' = (tokLoaded \/ Len(out.calls) = 2 \/ (Len(out.calls) = 1 /\ out.status = "ok"))
    /\ weightsLoaded' = (weightsLoaded \/ (Len(out.calls) = 2 /\ out.status = "ok"))
    /\ loaded' = IF Len(out.calls) < 2 THEN loaded
                 ELSE IF out.status = "ok" THEN [exists |-> TRUE, bytes |-> out.d.bytes]
                 ELSE NoLoaded
    /\ pristine' = (pristine /\ Len(out.calls) < 2)
    /\ lastOp' = Op(op, out.status, <<0, "none">>, NoFile, arg, out.calls, pristine)
    /\ lastGen' = NoGen
    /\ UNCHANGED <<config, temperature, saved, used, library>>

\* The kind of the path a weight file descriptor stands for.
PathKind(d) == IF d.exists THEN "file" ELSE "missing"

TinyLlama_initialize_with_config(vocabKind, lines, mergesKind, d) ==
    \E g \in GarbageChoicesFor(config, d) :
        Initialized("TinyLlama::initialize_with_config",
                    <<"file", vocabKind, mergesKind, PathKind(d)>>,
                    InitializeWithConfig(facade, config, tokenizer, weights, vocabKind, lines,
                                         mergesKind, PathKind(d), d, g))

TinyLlama_initialize(pathKind, vocabKind, lines, mergesKind, d) ==
    \E g \in GarbageChoicesFor(config, d) :
        Initialized("TinyLlama::initialize", <<pathKind, vocabKind, mergesKind, PathKind(d)>>,
                    Initialize(facade, config, tokenizer, weights, pathKind, vocabKind, lines,
                               mergesKind, PathKind(d), d, g))

MAX_GENERATION_TOKENS == 10000

\* The checks of generate with the arguments validated first.
GenerateChecksValidatingFirst(fac, c, prompt, max_tokens) ==
    IF validate_string_input(prompt, FALSE) # "ok" THEN "ConfigurationException"
    ELSE IF validate_positive_integer(max_tokens, 1) # "ok" THEN "ConfigurationException"
    ELSE IF ~fac.is_initialized_ THEN "ModelException"
    ELSE IF max_tokens > MAX_GENERATION_TOKENS THEN "ConfigurationException"
    ELSE IF max_tokens > c.max_sequence_length THEN "ConfigurationException"
    ELSE "ok"

\* The checks of TinyLlama::generate before it calls model_->generate_text.
GenerateChecks(fac, c, prompt, max_tokens) ==
    IF ~fac.is_initialized_ THEN "ModelException"
    ELSE IF validate_string_input(prompt, FALSE) # "ok" THEN "ConfigurationException"
    ELSE IF validate_positive_integer(max_tokens, 1) # "ok" THEN "ConfigurationException"
    ELSE IF max_tokens > MAX_GENERATION_TOKENS THEN "ConfigurationException"
    ELSE IF max_tokens > c.max_sequence_length THEN "ConfigurationException"
    ELSE "ok"

\* return model_->generate_text(prompt, max_tokens); the temperature parameter
\* takes its default, 1.0f.
FacadeGenerateSampled(prompt, max_tokens, picks, r) ==
    /\ Canonical(picks, r.steps)
    /\ SameArithmetic(config, weights, r.steps, lastGen.valid, lastGen)
    /\ GenerateRecorded(prompt.body, max_tokens, TemperatureOne, r)
    /\ lastOp' = Op("TinyLlama::generate", Rethrown(r.status, "ModelException"), <<0, "none">>,
                    NoFile, <<prompt, max_tokens>>, r.result, pristine)
    /\ UNCHANGED <<used, facade, library>>

TinyLlama_generate(prompt, max_tokens) ==
    /\ facade.wrapped
    /\ IF GenerateChecks(facade, config, prompt, max_tokens) # "ok"
       THEN FacadeReturns("TinyLlama::generate",
                          GenerateChecks(facade, config, prompt, max_tokens),
                          <<prompt, max_tokens>>, <<>>)
       ELSE \E picks \in Samplings(config, tokenizer, prompt.body, max_tokens) :
               FacadeGenerateSampled(prompt, max_tokens, picks,
                                     GenerateText(config, tokenizer, weights, temperature,
                                                  prompt.body, max_tokens, TemperatureOne,
                                                  picks))

\* TinyLlama::tokenize_to_strings; bpe_encode yields the characters of the text.
TinyLlama_tokenize_to_strings(text) ==
    /\ facade.wrapped
    /\ IF ~facade.is_initialized_
       THEN FacadeReturns("TinyLlama::tokenize_to_strings", "TokenizerException", text, <<>>)
       ELSE IF validate_string_input(text, TRUE) # "ok"
       THEN FacadeReturns("TinyLlama::tokenize_to_strings", "ConfigurationException", text, <<>>)
       ELSE FacadeReturns("TinyLlama::tokenize_to_strings", "ok", text, text.body)

TinyLlama_tokenize_to_ids(text) ==
    /\ facade.wrapped
    /\ IF ~facade.is_initialized_
       THEN FacadeReturns("TinyLlama::tokenize_to_ids", "TokenizerException", text, <<>>)
       ELSE IF validate_string_input(text, TRUE) # "ok"
       THEN FacadeReturns("TinyLlama::tokenize_to_ids", "ConfigurationException", text, <<>>)
       ELSE FacadeReturns("TinyLlama::tokenize_to_ids", "ok", text, Encode(tokenizer, text.body))

TinyLlama_detokenize(token_ids) ==
    /\ facade.wrapped
    /\ IF ~facade.is_initialized_
       THEN FacadeReturns("TinyLlama::detokenize", "TokenizerException", token_ids, <<>>)
       ELSE IF validate_token_ids(token_ids) # "ok"
       THEN FacadeReturns("TinyLlama::detokenize", "ConfigurationException", token_ids, <<>>)
       ELSE FacadeReturns("TinyLlama::detokenize", "ok", token_ids,
                          Decode(tokenizer, token_ids.ids))

\* 0.01f
MIN_TEMPERATURE == 1008981770

TinyLlama_set_temperature(t) ==
    /\ facade.wrapped
    /\ IF validate_positive_float(t, MIN_TEMPERATURE) # "ok"
       THEN FacadeReturns("TinyLlama::set_temperature", "ConfigurationException", <<t>>, <<>>)
       ELSE /\ temperature' = t
            /\ facade' = [facade EXCEPT !.temperature_set = TRUE]
            /\ lastOp' = Op("TinyLlama::set_temperature", "ok", <<0, "none">>, NoFile, <<t>>,
                            <<>>, pristine)
            /\ lastGen' = NoGen
            /\ UNCHANGED <<config, tokenizer, weights, saved, loaded, tokLoaded,
                           weightsLoaded, pristine, used, library>>

MAX_SEQUENCE_LENGTH == 100000

\* A set_max_sequence_length that stores a valid length in the configuration.
TinyLlama_set_max_sequence_length_applied(max_length) ==
    /\ facade.wrapped
    /\ IF validate_positive_integer(max_length, 1) # "ok" \/ max_length > MAX_SEQUENCE_LENGTH
       THEN FacadeReturns("TinyLlama::set_max_sequence_length", "ConfigurationException",
                          <<max_length>>, <<>>)
       ELSE /\ config' = [config EXCEPT !.max_sequence_length = max_length]
            /\ lastOp' = Op("TinyLlama::set_max_sequence_length", "ok", <<0, "none">>, NoFile,
                            <<max_length>>, <<>>, pristine)
            /\ lastGen' = NoGen
            /\ UNCHANGED <<tokenizer, weights, temperature, saved, loaded, tokLoaded,
                           weightsLoaded, pristine, used, facade, library>>

\* TinyLlama::set_max_sequence_length: every path ends in a throw.
TinyLlama_set_max_sequence_length(max_length) ==
    /\ facade.wrapped
    /\ IF validate_positive_integer(max_length, 1) # "ok"
       THEN FacadeReturns("TinyLlama::set_max_sequence_length", "ConfigurationException",
                          <<max_length>>, <<>>)
       ELSE IF max_length > MAX_SEQUENCE_LENGTH
       THEN FacadeReturns("TinyLlama::set_max_sequence_length", "ConfigurationException",
                          <<max_length>>, <<>>)
       ELSE FacadeReturns("TinyLlama::set_max_sequence_length", "ConfigurationException",
                          <<max_length>>, <<>>)

TinyLlama_get_vocab_size ==
    /\ facade.wrapped
    /\ IF ~facade.is_initialized_
       THEN FacadeReturns("TinyLlama::get_vocab_size", "ModelException", <<>>, <<>>)
       ELSE FacadeReturns("TinyLlama::get_vocab_size", "ok", <<>>, <<config.vocab_size>>)

\* bool is_ready() const { return is_initialized_; }
is_ready == facade.is_initialized_

\* The paths, files and arguments handed to the facade.
PathKinds == {"missing", "file", "dir"}
FileKinds == {"missing", "file"}

FacadeWeightFiles ==
    {FileDesc("missing", DefaultConfig, 0, 0, 0), FileDesc("test", FacadeConfig, 0, 0, 0),
     FileDesc("test", SmallConfig, 0, 0, 0)}

FacadeTexts ==
    {Text(<<>>, 0), Text(<<"z">>, 0), Text(<<"NUL">>, 0), Text(<<"z">>, MAX_STRING_LENGTH)}

FacadeMaxTokens == {0, 1, 2, 4, MAX_GENERATION_TOKENS + 1, MAX_REASONABLE_VALUE + 1}

FacadeTokenIds ==
    {TokenIds(<<>>, 0), TokenIds(<<0>>, 0), TokenIds(<<-1>>, 0), TokenIds(<<0>>, MAX_TOKEN_COUNT)}

\* 0.0f, the float below 0.01f, 0.01f, 0.5f, 1000.0f, the float above 1000.0f,
\* +infinity, a NaN, -1.0f, -infinity, a negative NaN.
FacadeTemperatures ==
    {0, MIN_TEMPERATURE - 1, MIN_TEMPERATURE, 1056964608, MAX_REASONABLE_FLOAT,
     MAX_REASONABLE_FLOAT + 1, INFINITY_IMAGE, INFINITY_IMAGE + 1,
     -1082130432, -8388608, -4194304}

FacadeMaxLengths == {0, 1, 2, MAX_SEQUENCE_LENGTH + 1, MAX_REASONABLE_VALUE + 1}

\* The calls a program can make on a TinyLlama.
NextFacade ==
    \/ TinyLlama_TinyLlama
    \/ \E pathKind \in PathKinds, vocabKind \in FileKinds, lines \in GenVocabFiles,
          mergesKind \in FileKinds, desc \in FacadeWeightFiles :
          TinyLlama_initialize(pathKind, vocabKind, lines, mergesKind,
                               FileBytes(desc, saved, TestWeightFile(desc.cfg)))
    \/ \E vocabKind \in FileKinds, lines \in GenVocabFiles, mergesKind \in FileKinds,
          desc \in FacadeWeightFiles :
          TinyLlama_initialize_with_config(vocabKind, lines, mergesKind,
                                           FileBytes(desc, saved, TestWeightFile(desc.cfg)))
    \/ \E prompt \in FacadeTexts, max_tokens \in FacadeMaxTokens :
          TinyLlama_generate(prompt, max_tokens)
    \/ \E text \in FacadeTexts : TinyLlama_tokenize_to_strings(text)
    \/ \E text \in FacadeTexts : TinyLlama_tokenize_to_ids(text)
    \/ \E token_ids \in FacadeTokenIds : TinyLlama_detokenize(token_ids)
    \/ \E t \in FacadeTemperatures : TinyLlama_set_temperature(t)
    \/ \E max_length \in FacadeMaxLengths : TinyLlama_set_max_sequence_length(max_length)
    \/ TinyLlama_get_vocab_size

SpecFacade == Init /\ [][NextFacade]_vars

---------------------------------------------------------------------------
(* Properties of the facade *)

InitializeCalls == {"TinyLlama::initialize", "TinyLlama::initialize_with_config"}

BothLoads == <<"load_tokenizer", "load_model_weights">>

\* The paths an initialize call was given exist: the directory of initialize,
\* the three files of initialize_with_config.
ExistingPaths(op) ==
    IF op.op = "TinyLlama::initialize" THEN op.arg[1] = "dir"
    ELSE op.arg[2] = "file" /\ op.arg[3] = "file" /\ op.arg[4] = "file"

NotReadyException ==
    [op \in {"TinyLlama::generate", "TinyLlama::get_vocab_size"} |-> "ModelException"]
    @@ [op \in {"TinyLlama::tokenize_to_strings", "TinyLlama::tokenize_to_ids",
                "TinyLlama::detokenize"} |-> "TokenizerException"]

TemperatureInRange(t) == t >= MIN_TEMPERATURE /\ t <= MAX_REASONABLE_FLOAT

\* C18: TinyLlama::set_temperature(t), on a ready facade or not, succeeds
\* exactly when t is finite and 0.01 <= t <= 1000 and then stores t; for every
\* other t it raises ConfigurationException and the stored temperature is
\* unchanged.
C18_SetTemperatureRange ==
    [][lastOp'.op = "TinyLlama::set_temperature"
          => IF TemperatureInRange(lastOp'.arg[1])
             THEN lastOp'.status = "ok" /\ temperature' = lastOp'.arg[1]
             ELSE lastOp'.status = "ConfigurationException" /\ temperature' = temperature]_vars

\* A NaN was just refused, after 0.5f had been stored.
C18_Witness ==
    /\ lastOp.op = "TinyLlama::set_temperature"
    /\ lastOp.arg = <<INFINITY_IMAGE + 1>>
    /\ lastOp.status = "ConfigurationException"
    /\ facade.temperature_set
    /\ temperature = 1056964608

\* C20: after TinyLlama::set_temperature(t) has succeeded, a TinyLlama::generate
\* call divides the logits by t in softmax: every sampling of the call was made
\* with the stored temperature.
C20_GenerateUsesStoredTemperature ==
    (facade.wrapped /\ facade.temperature_set /\ lastOp.op = "TinyLlama::generate"
       /\ lastGen.valid)
        => \A k \in 1..Len(lastGen.steps) : lastGen.steps[k].temp = temperature

---------------------------------------------------------------------------
(* The configuration after construction *)

\* Well-formed files for c with one header field overwritten.
HeaderFiles(c, n) ==
    UNION {{FileDesc("poked", c, n, i, v) : v \in PokeValues(c, i)} : i \in 0..8}

\* load_model_weights on the well-formed file full with a header field overwritten.
LoadHeaderFiles(full) ==
    \E desc \in HeaderFiles(config, Len(full)) :
        LoadWeights(desc, FileBytes(desc, saved, full))

\* The token sequences given to forward.
ForwardInputs == {<<>>, <<0>>, <<0, 1>>}

\* The operations of a TinyLlamaModel of its own, and a TinyLlama with the
\* calls that reach its model_'s configuration.
NextConfig ==
    \/ Construct(GenConfig) /\ facade' = NoFacade /\ lastGen' = NoGen /\ UNCHANGED <<used, library>>
    \/ /\ ~facade.wrapped
       /\ \E lines \in GenVocabFiles, e \in BOOLEAN : LoadTokenizer(e, lines, TRUE)
       /\ lastGen' = NoGen /\ UNCHANGED <<used, facade, library>>
    \/ /\ ~facade.wrapped
       /\ LoadPlain({GenConfig, SmallConfig})
       /\ lastGen' = NoGen /\ UNCHANGED <<used, facade, library>>
    \/ /\ ~facade.wrapped
       /\ LoadHeaderFiles(TestWeightFile(config))
       /\ lastGen' = NoGen /\ UNCHANGED <<used, facade, library>>
    \/ /\ ~facade.wrapped
       /\ SaveWeights
       /\ lastGen' = NoGen /\ UNCHANGED <<used, facade, library>>
    \/ /\ ~facade.wrapped
       /\ \E tokens \in ForwardInputs : Forward(tokens)
       /\ lastGen' = NoGen /\ UNCHANGED <<used, facade, library>>
    \/ /\ ~facade.wrapped
       /\ \E prompt \in DetPrompts, arg \in TemperatureArgs : Generate(prompt, 1, arg)
       /\ UNCHANGED <<used, facade, library>>
    \/ /\ ~facade.wrapped
       /\ \E t \in DetTemperatures : SetTemperature(t)
       /\ lastGen' = NoGen /\ UNCHANGED <<used, facade, library>>
    \/ TinyLlama_TinyLlama
    \/ \E desc \in FacadeWeightFiles, lines \in GenVocabFiles :
          TinyLlama_initialize_with_config("file", lines, "file",
                                           FileBytes(desc, saved, TestWeightFile(desc.cfg)))
    \/ \E max_length \in FacadeMaxLengths : TinyLlama_set_max_sequence_length(max_length)

SpecConfig == Init /\ [][NextConfig]_vars

ModelCalls ==
    {"load_tokenizer", "load", "save", "forward", "generate", "set_temperature",
     "TinyLlama::initialize_with_config", "TinyLlama::set_max_sequence_length"}

---------------------------------------------------------------------------
(* A Matrix on its own *)

\* The variables of a TinyLlamaModel and of its facade.
model == <<config, tokenizer, weights, temperature, saved, loaded, tokLoaded,
           weightsLoaded, pristine, used, lastOp, lastGen, facade>>

Called(op, status, arg, result) ==
    [op |-> op, status |-> status, arg |-> arg, result |-> result]

\* Matrix(): the new matrix replaces the one at hand.
MatrixDefault ==
    /\ matrix' = Matrix_default
    /\ call' = Called("Matrix()", "ok", <<>>, Matrix_default)
    /\ UNCHANGED <<model, tensor, disk, threads>>

\* A constructor that throws leaves the matrix at hand.
MatrixConstructed(op, arg, out) ==
    /\ matrix' = IF out.status = "ok" THEN out.m ELSE matrix
    /\ call' = Called(op, out.status, arg, out.m)
    /\ UNCHANGED <<model, tensor, disk, threads>>

MatrixRowsCols(rows, cols) ==
    MatrixConstructed("Matrix(rows, cols)", <<rows, cols>>, Matrix_rows_cols(rows, cols))

MatrixRowsColsData(rows, cols, data) ==
    MatrixConstructed("Matrix(rows, cols, data)", <<rows, cols, data>>,
                      Matrix_rows_cols_data(rows, cols, data))

\* A member function that changes the matrix, whether it returns or throws.
MatrixChanged(op, arg, out) ==
    /\ matrix' = out.m
    /\ call' = Called(op, out.status, arg, out.m)
    /\ UNCHANGED <<model, tensor, disk, threads>>

MatrixResize(rows, cols) == MatrixChanged("resize", <<rows, cols>>, Matrix_resize(matrix, rows, cols))

MatrixFill(value) == MatrixChanged("fill", <<value>>, MatrixOutcome("ok", Matrix_fill(matrix, value)))

\* A const member function: its result is recorded.
MatrixAsked(op, status, arg, result) ==
    /\ call' = Called(op, status, arg, result)
    /\ UNCHANGED <<model, matrix, tensor, disk, threads>>

MatrixElement(row, col) ==
    MatrixAsked("operator()", Matrix_element(matrix, row, col).status, <<row, col>>,
                Matrix_element(matrix, row, col).index)

\* matrix * B and matrix + B; the product is taken of matrices whose
\* dimensions fit.
MatrixTimes(B) ==
    /\ \A d \in {matrix.rows_, matrix.cols_, B.rows_, B.cols_} : SizeFits(d)
    /\ MatrixAsked("operator*", Matrix_times(matrix, B).status, B, Matrix_times(matrix, B).m)

MatrixPlus(B) ==
    MatrixAsked("operator+", Matrix_plus(matrix, B).status, B, Matrix_plus(matrix, B).m)

MatrixSaveToFile ==
    /\ disk' = [exists |-> TRUE, bytes |-> Matrix_save_to_file(matrix), from |-> matrix]
    /\ call' = Called("save_to_file", "ok", <<>>, <<>>)
    /\ UNCHANGED <<model, matrix, tensor, threads>>

\* load_from_file of the first `cut` bytes of a file, into the matrix at hand
\* or into a fresh one.
MatrixLoadFromFile(fresh, file, cut) ==
    MatrixChanged("load_from_file",
                  [fresh |-> fresh, file |-> file, cut |-> cut],
                  Matrix_load_from_file(IF fresh THEN Matrix_default ELSE matrix, file, cut))

\* The dimensions and the elements given to a matrix.
DimInputs == {SizeT(n) : n \in 0..MaxDim} \cup {TwoTo32, TwoTo62}
SmallDims == {SizeT(n) : n \in 0..MaxDim}
FillValues == {3}
ElementInputs == {<<>>, <<1, 2>>, <<1, 2, 1, 2>>}

\* The right operands: the matrices the constructors build from small
\* dimensions, and the matrix at hand.
Operands ==
    {matrix} \cup
    {Matrix_fill(Matrix_rows_cols(r, c).m, v) : r \in SmallDims, c \in SmallDims, v \in FillValues}

\* A file that holds two dimensions and nothing else.
HeaderOnly(rows, cols) == [exists |-> TRUE, bytes |-> rows \o cols, from |-> Matrix_default]

\* No file, and files that hold a header.
HeaderFilesOfMatrix ==
    {NoDisk} \cup {HeaderOnly(r, c) : r \in {SizeT(1), TwoTo32}, c \in {SizeT(0), TwoTo32}}

NextMatrix ==
    \/ MatrixDefault
    \/ \E rows \in DimInputs, cols \in DimInputs : MatrixRowsCols(rows, cols)
    \/ \E rows \in SmallDims, cols \in SmallDims, data \in ElementInputs :
          MatrixRowsColsData(rows, cols, data)
    \/ \E rows \in DimInputs, cols \in DimInputs : MatrixResize(rows, cols)
    \/ \E value \in FillValues : MatrixFill(value)
    \/ \E row \in SmallDims, col \in SmallDims : MatrixElement(row, col)
    \/ \E B \in Operands : MatrixTimes(B)
    \/ \E B \in Operands : MatrixPlus(B)
    \/ \E file \in HeaderFilesOfMatrix :
          MatrixLoadFromFile(FALSE, file, Len(file.bytes))

SpecMatrix == Init /\ [][NextMatrix]_vars

\* Matrices written to a file and read back: whole, or cut short.
SavedShapes == {<<SizeT(0), SizeT(2)>>, <<SizeT(1), SizeT(2)>>, <<SizeT(2), SizeT(1)>>}
SavedElements == {<<>>, <<1, 2>>}

NextMatrixFile ==
    \/ \E shape \in SavedShapes, data \in SavedElements :
          MatrixRowsColsData(shape[1], shape[2], data)
    \/ \E rows \in {SizeT(1), TwoTo62} : MatrixResize(rows, SizeT(1))
    \/ MatrixSaveToFile
    \/ \E fresh \in BOOLEAN, file \in {NoDisk, disk} :
          \E cut \in 0..Len(file.bytes) : MatrixLoadFromFile(fresh, file, cut)

SpecMatrixFile == Init /\ [][NextMatrixFile]_vars

---------------------------------------------------------------------------
(* Properties of Matrix *)

\* The access (row, col) is inside the matrix.
InRange(m, row, col) == SizeLess(row, m.rows_) /\ SizeLess(col, m.cols_)

\* C21: in every state of a Matrix the buffer holds rows() * cols() elements,
\* size() is rows() * cols(), Matrix(r, c) has r rows and c columns, and an
\* access (i, j) inside the matrix addresses element i * cols() + j of the
\* buffer while every other access raises out-of-range.
C21_MatrixShapeInvariant ==
    /\ SizeT(Len(matrix.data_)) = MulSizeT(matrix.rows_, matrix.cols_)
    /\ Matrix_size(matrix) = MulSizeT(matrix.rows_, matrix.cols_)
    /\ (call.op = "Matrix(rows, cols)" /\ call.status = "ok")
          => (matrix.rows_ = call.arg[1] /\ matrix.cols_ = call.arg[2])
    /\ \A row \in SmallDims, col \in SmallDims :
          IF InRange(matrix, row, col)
          THEN /\ Matrix_element(matrix, row, col).status = "ok"
               /\ Matrix_element(matrix, row, col).index
                     = AddSizeT(MulSizeT(row, matrix.cols_), col)
               /\ InsideBuffer(matrix.data_, Matrix_element(matrix, row, col).index)
          ELSE Matrix_element(matrix, row, col).status = "out_of_range"

\* The sum of A(i, l) * B(l, j) over the l below k.
RECURSIVE Sigma(_, _, _, _, _)
Sigma(A, B, i, j, k) ==
    IF k = 0 THEN 0
    ELSE Sigma(A, B, i, j, k - 1) + ElementOf(A, i, k - 1) * ElementOf(B, k - 1, j)

\* C22: A[m,k] * B[k2,n] is the [m,n] matrix of the sums of A(i,l) * B(l,j)
\* when k = k2 and a dimension-mismatch error otherwise; A + B is the
\* element-wise sum when the shapes are identical and an error otherwise.
C22_ProductAndSum ==
    /\ call.op = "operator*" =>
          IF matrix.cols_ # call.arg.rows_ THEN call.status = "invalid_argument"
          ELSE /\ call.status = "ok"
               /\ call.result.rows_ = matrix.rows_
               /\ call.result.cols_ = call.arg.cols_
               /\ \A i \in 0..(SizeValue(matrix.rows_) - 1),
                     j \in 0..(SizeValue(call.arg.cols_) - 1) :
                     ElementOf(call.result, i, j)
                        = Sigma(matrix, call.arg, i, j, SizeValue(matrix.cols_))
    /\ call.op = "operator+" =>
          IF matrix.rows_ # call.arg.rows_ \/ matrix.cols_ # call.arg.cols_
          THEN call.status = "invalid_argument"
          ELSE /\ call.status = "ok"
               /\ call.result.rows_ = matrix.rows_
               /\ call.result.cols_ = matrix.cols_
               /\ Len(call.result.data_) = Len(matrix.data_)
               /\ \A n \in 1..Len(matrix.data_) :
                     call.result.data_[n] = matrix.data_[n] + call.arg.data_[n]

\* C23: load_from_file of a saved file into a fresh matrix yields the rows,
\* the columns and the elements of the matrix that was saved; load_from_file
\* of a missing file or of a proper prefix of a saved file raises a file-I/O
\* error.
C23_FileRoundTrip ==
    call.op = "load_from_file" =>
        /\ (~call.arg.file.exists \/ call.arg.cut < Len(call.arg.file.bytes))
              => call.status = "FileIOException"
        /\ (call.arg.file.exists /\ call.arg.cut = Len(call.arg.file.bytes) /\ call.arg.fresh)
              => (call.status = "ok" /\ matrix = call.arg.file.from)

\* The buffer of m holds as many elements as its dimensions say.
WellFormed(m) ==
    /\ SizeFits(m.rows_) /\ SizeFits(m.cols_)
    /\ Len(m.data_) = SizeValue(m.rows_) * SizeValue(m.cols_)

\* What holds of the matrices whose buffer fits their dimensions.
WellFormedProductAndSum ==
    (WellFormed(matrix) /\ call.op \in {"operator*", "operator+"}) => C22_ProductAndSum
WellFormedFileRoundTrip ==
    (call.op = "load_from_file" /\ WellFormed(call.arg.file.from)) => C23_FileRoundTrip

---------------------------------------------------------------------------
(* A Tensor on its own *)

\* Tensor(): the new tensor replaces the one at hand.
TensorDefault ==
    /\ tensor' = Tensor_default
    /\ call' = Called("Tensor()", "ok", <<>>, <<>>)
    /\ UNCHANGED <<model, matrix, disk, threads>>

\* Tensor(shape): a constructor that throws leaves the tensor at hand.
TensorShape(shape) ==
    /\ tensor' = IF Tensor_shape(shape).status = "ok" THEN Tensor_shape(shape).m ELSE tensor
    /\ call' = Called("Tensor(shape)", Tensor_shape(shape).status, shape, <<>>)
    /\ UNCHANGED <<model, matrix, disk, threads>>

TensorResize(shape) ==
    /\ tensor' = Tensor_resize(tensor, shape).m
    /\ call' = Called("resize", Tensor_resize(tensor, shape).status, shape, <<>>)
    /\ UNCHANGED <<model, matrix, disk, threads>>

TensorFill(value) ==
    /\ tensor' = Tensor_fill(tensor, value)
    /\ call' = Called("fill", "ok", value, <<>>)
    /\ UNCHANGED <<model, matrix, disk, threads>>

TensorAt(indices) ==
    /\ call' = Called("at", Tensor_at(tensor, indices).status, indices,
                      Tensor_at(tensor, indices).index)
    /\ UNCHANGED <<model, matrix, tensor, disk, threads>>

\* The shapes and the index vectors given to a tensor: at most MaxDim
\* dimensions.
Shapes == UNION {[1..n -> SmallDims \cup {TwoTo32}] : n \in 0..MaxDim}
IndexVectors == UNION {[1..n -> SmallDims] : n \in 0..MaxDim}

NextTensor ==
    \/ TensorDefault
    \/ \E shape \in Shapes : TensorShape(shape)
    \/ \E shape \in Shapes : TensorResize(shape)
    \/ \E value \in FillValues : TensorFill(value)
    \/ \E indices \in IndexVectors : TensorAt(indices)

SpecTensor == Init /\ [][NextTensor]_vars

\* indices has one index for every dimension of t, each below its dimension.
ValidIndices(t, indices) ==
    /\ Len(indices) = Len(t.shape_)
    /\ \A i \in 1..Len(indices) : SizeLess(indices[i], t.shape_[i])

\* C27: the buffer of every Tensor reached by default construction,
\* construction from a shape, resize and fill holds total_size() elements,
\* the product of the shape and 1 for the empty shape; at(indices) addresses
\* an element of the buffer when indices is valid and raises an error
\* otherwise.
C27_TensorStorageInvariant ==
    /\ SizeT(Len(tensor.data_)) = Tensor_total_size(tensor)
    /\ Tensor_total_size(tensor) = ShapeProduct(tensor.shape_)
    /\ \A indices \in IndexVectors :
          IF ValidIndices(tensor, indices)
          THEN /\ Tensor_at(tensor, indices).status = "ok"
               /\ InsideBuffer(tensor.data_, Tensor_at(tensor, indices).index)
          ELSE Tensor_at(tensor, indices).status \in {"invalid_argument", "out_of_range"}

---------------------------------------------------------------------------
(* Constructors *)

\* MultiHeadAttention(model_dim, num_heads), for num_heads other than 0.
MultiHeadAttention_MultiHeadAttention(model_dim, num_heads) ==
    IF model_dim % num_heads # 0 THEN "ConfigurationException" ELSE "ok"

\* TransformerBlock(model_dim, num_heads, ffn_hidden_dim) builds its attention first.
TransformerBlock_TransformerBlock(model_dim, num_heads, ffn_hidden_dim) ==
    MultiHeadAttention_MultiHeadAttention(model_dim, num_heads)

NewMultiHeadAttention(model_dim, num_heads) ==
    /\ call' = Called("MultiHeadAttention",
                      MultiHeadAttention_MultiHeadAttention(model_dim, num_heads),
                      [model_dim |-> model_dim, num_heads |-> num_heads], <<>>)
    /\ UNCHANGED <<model, matrix, tensor, disk, threads>>

NewTransformerBlock(model_dim, num_heads, ffn_hidden_dim) ==
    /\ call' = Called("TransformerBlock",
                      TransformerBlock_TransformerBlock(model_dim, num_heads, ffn_hidden_dim),
                      [model_dim |-> model_dim, num_heads |-> num_heads], <<>>)
    /\ UNCHANGED <<model, matrix, tensor, disk, threads>>

\* The dimensions, head counts and layer counts the constructors are given.
MaxHeads == 3
MaxLayers == 1
ConstructConfigs ==
    {ModelConfig(md, nl, nh, 1, 2, 2, DropoutTenth) :
        md \in 1..MaxHeads, nl \in 0..MaxLayers, nh \in 1..MaxHeads}

NextConstruct ==
    \/ \E c \in ConstructConfigs : Construct(c) /\ UNCHANGED <<used, lastGen, facade, library>>
    \/ \E model_dim \in 1..MaxHeads, num_heads \in 1..MaxHeads :
          NewMultiHeadAttention(model_dim, num_heads)
    \/ \E model_dim \in 1..MaxHeads, num_heads \in 1..MaxHeads :
          NewTransformerBlock(model_dim, num_heads, 1)

SpecConstruct == Init /\ [][NextConstruct]_vars

\* C24: the model at hand was constructed, so its model_dim is a multiple of
\* its num_heads whatever its other fields are; a MultiHeadAttention or a
\* TransformerBlock given a model_dim that is no multiple of num_heads raises
\* ConfigurationException.
C24_HeadsDivideModelDim ==
    /\ config.model_dim % config.num_heads = 0
    /\ (call.op \in {"MultiHeadAttention", "TransformerBlock"}
        /\ call.arg.model_dim % call.arg.num_heads # 0)
          => call.status = "ConfigurationException"

---------------------------------------------------------------------------
(* Two threads, two instances *)

\* The message of the exception thread t catches: it names the file of t.
MessageOf(t) == <<"Error loading model weights", t>>

Touched(th, t, loc, write) ==
    [th EXCEPT !.writers[loc] = IF write THEN @ \cup {t} ELSE @,
               !.readers[loc] = IF write THEN @ ELSE @ \cup {t}]

\* One rand() call of MultiHeadAttention's constructor in thread t: the
\* generator steps and hands out its next value.
ThreadRand(t) ==
    /\ threads.of[t].pc = "construct"
    /\ threads' = [Touched(threads, t, "rand", TRUE) EXCEPT
                      !.rand = @ + 1,
                      !.of[t].drawn = Append(@, threads.rand + 1),
                      !.of[t].pc = IF Len(threads.of[t].drawn) + 1 = RandDraws
                                   THEN "load" ELSE "construct"]
    /\ UNCHANGED <<model, matrix, tensor, disk, call>>

\* load_model_weights of a file that is missing throws FileIOException out
\* of its handlers; thread t catches it.
ThreadLoadFails(t) ==
    /\ threads.of[t].pc = "load"
    /\ threads' = [threads EXCEPT !.of[t].pc = "what"]
    /\ UNCHANGED <<model, matrix, tensor, disk, call>>

\* what(): full_message = oss.str(); return full_message.c_str();
ThreadWhat(t) ==
    /\ threads.of[t].pc = "what"
    /\ threads' = [Touched(threads, t, "full_message", TRUE) EXCEPT
                      !.full_message = MessageOf(t),
                      !.of[t].pc = "print"]
    /\ UNCHANGED <<model, matrix, tensor, disk, call>>

\* What a read of full_message through the returned pointer gives: the
\* string as it is, or anything when another thread writes it without
\* synchronisation.
ReadOutcomes(t) ==
    {threads.full_message}
    \cup (IF threads.writers["full_message"] \ {t} # {} THEN {<<"indeterminate">>} ELSE {})

\* Thread t formats the message through the pointer what() returned.
ThreadPrint(t) ==
    /\ threads.of[t].pc = "print"
    /\ \E text \in ReadOutcomes(t) :
          threads' = [Touched(threads, t, "full_message", FALSE) EXCEPT
                         !.of[t].seen = text,
                         !.of[t].pc = "done"]
    /\ UNCHANGED <<model, matrix, tensor, disk, call>>

NextThreads ==
    \E t \in Threads :
        \/ ThreadRand(t)
        \/ ThreadLoadFails(t)
        \/ ThreadWhat(t)
        \/ ThreadPrint(t)

SpecThreads == Init /\ [][NextThreads]_vars

\* A location one thread has written and another has written or read.
SharedLocations ==
    {loc \in DOMAIN threads.writers :
        \E t \in threads.writers[loc] :
            (threads.writers[loc] \cup threads.readers[loc]) \ {t} # {}}

\* What thread t gets when it runs alone: the first values of rand() and
\* its own message.
AloneDrawn == [i \in 1..RandDraws |-> i]

\* C25: two threads that drive an instance each share no mutable state: no
\* location is written by one thread and read or written by the other, and
\* in every interleaving each thread gets the result it would get alone.
C25_InstancesShareNothing ==
    /\ SharedLocations = {}
    /\ \A t \in Threads :
          threads.of[t].pc = "done"
             => (threads.of[t].drawn = AloneDrawn /\ threads.of[t].seen = MessageOf(t))

---------------------------------------------------------------------------
(* MultiHeadAttention::forward: the loop over the heads *)

\* A slice taken at h + j.
HeadSliceUnscaled(M, h, head_dim) ==
    [i \in 1..Len(M) |-> [j \in 1..head_dim |-> M[i][h + (j - 1) + 1]]]

\* Rows and columns count from 0 as in the code; M(i, c) is M[i + 1][c + 1].
\* q_head(i, j) = query(i, h * head_dim_ + j), likewise for key and value.
HeadSlice(M, h, head_dim) ==
    [i \in 1..Len(M) |-> [j \in 1..head_dim |-> M[i][h * head_dim + (j - 1) + 1]]]

\* The columns head h takes from query, key and value, and the columns of
\* the combined output it assigns.
HeadColumns(h, head_dim) == {h * head_dim + j : j \in 0..(head_dim - 1)}

\* Element (i, j) of scaled_dot_product_attention(q_head, k_head, v_head,
\* mask): the arithmetic is not followed, the element stands for itself as
\* a function of the three matrices of the head.
HeadOutput(q_head, k_head, v_head, i, j) ==
    [q |-> q_head, k |-> k_head, v |-> v_head, row |-> i, col |-> j]

\* output(i, h * head_dim_ + j) = head_output(i, j)
HeadWritten(output, h, head_dim, q_head, k_head, v_head) ==
    [i \in 1..Len(output) |->
        [c \in 1..Len(output[i]) |->
            IF (c - 1) \in HeadColumns(h, head_dim)
            THEN HeadOutput(q_head, k_head, v_head, i - 1, (c - 1) - h * head_dim)
            ELSE output[i][c]]]

\* The iterations of the loop from head h on: the combined output, and for
\* every head the columns it read and the columns it wrote.
RECURSIVE HeadsFrom(_, _, _, _, _, _, _)
HeadsFrom(h, num_heads, head_dim, query, key, value, acc) ==
    IF h >= num_heads THEN acc
    ELSE HeadsFrom(h + 1, num_heads, head_dim, query, key, value,
                   [output |-> HeadWritten(acc.output, h, head_dim,
                                           HeadSlice(query, h, head_dim),
                                           HeadSlice(key, h, head_dim),
                                           HeadSlice(value, h, head_dim)),
                    reads |-> Append(acc.reads, HeadColumns(h, head_dim)),
                    writes |-> Append(acc.writes, HeadColumns(h, head_dim))])

\* The combined output of forward before the final projection, for a
\* MultiHeadAttention(model_dim, num_heads): head_dim_ = model_dim / num_heads,
\* output starts as zeros.
CombinedHeads(model_dim, num_heads, query, key, value) ==
    HeadsFrom(0, num_heads, model_dim \div num_heads, query, key, value,
              [output |-> [i \in 1..Len(query) |-> [c \in 1..model_dim |-> 0]],
               reads |-> <<>>, writes |-> <<>>])

\* forward on an attention the constructor has built.  forward is const and
\* its result depends on its arguments only, so every call is followed from
\* the initial state.
MultiHeadAttentionForward(model_dim, num_heads, query, key, value) ==
    /\ call = NoCall
    /\ MultiHeadAttention_MultiHeadAttention(model_dim, num_heads) = "ok"
    /\ call' = Called("MultiHeadAttention::forward", "ok",
                      [model_dim |-> model_dim, num_heads |-> num_heads,
                       query |-> query, key |-> key, value |-> value],
                      CombinedHeads(model_dim, num_heads, query, key, value))
    /\ UNCHANGED <<model, matrix, tensor, disk, threads>>

\* The widest model, the longest sequence, and the rows query, key and value
\* are made of.
MaxModelDim == 4
MaxSeqLen == 2
RowInputs(model_dim) == {[c \in 1..model_dim |-> 0], [c \in 1..model_dim |-> c]}
Projected(model_dim) ==
    UNION {[1..n -> RowInputs(model_dim)] : n \in 1..MaxSeqLen}
Repeated(model_dim) ==
    {[i \in 1..n |-> row] : row \in RowInputs(model_dim), n \in 1..MaxSeqLen}

\* query is any sequence of the rows, key and value repeat one row.
NextHeads ==
    \E model_dim \in 1..MaxModelDim, num_heads \in 1..MaxModelDim :
        \E query \in Projected(model_dim), key \in Repeated(model_dim),
           value \in Repeated(model_dim) :
            /\ Len(query) = Len(key) /\ Len(key) = Len(value)
            /\ MultiHeadAttentionForward(model_dim, num_heads, query, key, value)

SpecHeads == Init /\ [][NextHeads]_vars

\* M with a value it did not have at row i, column c (from 0).
Altered(M, i, c) == [M EXCEPT ![i + 1][c + 1] = -1]

\* The columns of `cols` are the same in the two outputs.
SameColumns(out1, out2, cols) ==
    \A i \in 1..Len(out1) : \A c \in cols : out1[i][c + 1] = out2[i][c + 1]

\* C26: in forward head h reads the columns [h*head_dim, (h+1)*head_dim) of
\* Q, K and V and writes those columns of the combined buffer, every column
\* in [0, model_dim) is written by exactly one head, and what head h writes
\* does not depend on the columns of Q, K, V outside its slice.
C26_HeadsPartitionColumns ==
    call.op = "MultiHeadAttention::forward" =>
        LET a == call.arg
            r == call.result
            head_dim == a.model_dim \div a.num_heads
            slice(h) == {c \in 0..(a.model_dim - 1) :
                            h * head_dim <= c /\ c < (h + 1) * head_dim}
        IN /\ Len(r.reads) = a.num_heads /\ Len(r.writes) = a.num_heads
           /\ \A h \in 0..(a.num_heads - 1) :
                 r.reads[h + 1] = slice(h) /\ r.writes[h + 1] = slice(h)
           /\ \A c \in 0..(a.model_dim - 1) :
                 Cardinality({h \in 0..(a.num_heads - 1) : c \in r.writes[h + 1]}) = 1
           /\ \A h \in 0..(a.num_heads - 1) :
                 \A c \in (0..(a.model_dim - 1)) \ slice(h) :
                    \A i \in 0..(Len(a.query) - 1) :
                       /\ SameColumns(r.output,
                             CombinedHeads(a.model_dim, a.num_heads, Altered(a.query, i, c),
                                           a.key, a.value).output, slice(h))
                       /\ SameColumns(r.output,
                             CombinedHeads(a.model_dim, a.num_heads, a.query,
                                           Altered(a.key, i, c), a.value).output, slice(h))
                       /\ SameColumns(r.output,
                             CombinedHeads(a.model_dim, a.num_heads, a.query, a.key,
                                           Altered(a.value, i, c)).output, slice(h))

\* A forward with two heads of two columns over two positions.
C26_Witness ==
    /\ call.op = "MultiHeadAttention::forward"
    /\ call.arg.model_dim = 4 /\ call.arg.num_heads = 2 /\ Len(call.arg.query) = 2
    /\ call.result.writes = <<{0, 1}, {2, 3}>>
    /\ call.result.output[2][3].col = 0
    /\ call.result.output[2][3].q # call.result.output[2][1].q

---------------------------------------------------------------------------
(* A Vocabulary on its own *)

\* Vocabulary::add_token(token): the id it returns, the size before the call
\* and whether the token was there.
VocabAddToken(token) ==
    /\ tokenizer' = AddToken(tokenizer, token)
    /\ call' = Called("add_token", "ok", token,
                      [id |-> AddToken(tokenizer, token).token_to_id[token],
                       existed |-> token \in DOMAIN tokenizer.token_to_id,
                       id_before |-> GetTokenId(tokenizer, token),
                       size_before |-> VocabSize(tokenizer)])
    /\ UNCHANGED <<config, weights, temperature, saved, loaded, tokLoaded, weightsLoaded,
                   pristine, used, lastOp, lastGen, facade, matrix, tensor, disk, threads>>

\* Vocabulary::load_from_file of a file that opens.
VocabLoad(lines) ==
    /\ tokenizer' = VocabLoadFromFile(tokenizer, lines)
    /\ call' = Called("load_from_file", "ok", lines, <<>>)
    /\ UNCHANGED <<config, weights, temperature, saved, loaded, tokLoaded, weightsLoaded,
                   pristine, used, lastOp, lastGen, facade, matrix, tensor, disk, threads>>

\* The tokens added, the ids a line may state (-1: none) and the lines of a
\* file.
AddedTokens == {"a", "b", "c", UNK_TOKEN}
MaxLineId == 4
MaxVocabLines == 2
LineInputs == {VocabLine(token, id) : token \in {"a", "b"}, id \in {-1, 0, MaxLineId}}
VocabFileInputs == UNION {[1..n -> LineInputs] : n \in 0..MaxVocabLines}

NextVocabulary ==
    \/ \E token \in AddedTokens : VocabAddToken(token)
    \/ \E lines \in VocabFileInputs : VocabLoad(lines)

SpecVocabulary == Init /\ [][NextVocabulary]_vars

\* has_token
HasToken(v, token) == token \in DOMAIN v.token_to_id

SpecialTokens == {UNK_TOKEN, PAD_TOKEN, BOS_TOKEN, EOS_TOKEN}

\* C28: after any sequence of add_token and load_from_file calls every token
\* of the vocabulary is the token of its id, distinct tokens have distinct
\* ids, the four special tokens are present under four ids, and add_token of
\* a token that exists returns its id and leaves the size.
C28_VocabularyIsConsistent ==
    /\ \A t \in DOMAIN tokenizer.token_to_id :
          GetToken(tokenizer, GetTokenId(tokenizer, t)) = t
    /\ \A t1, t2 \in DOMAIN tokenizer.token_to_id :
          t1 # t2 => GetTokenId(tokenizer, t1) # GetTokenId(tokenizer, t2)
    /\ \A t \in SpecialTokens : HasToken(tokenizer, t)
    /\ Cardinality({GetTokenId(tokenizer, t) : t \in SpecialTokens}) = 4
    /\ (call.op = "add_token" /\ call.result.existed)
          => (call.result.id = call.result.id_before
              /\ VocabSize(tokenizer) = call.result.size_before)

---------------------------------------------------------------------------
(* The token ids generate_text hands to forward *)

\* C29: on a Ready model every token id generate_text passes to forward,
\* from the tokenizer or from sample_token, lies in [0, vocab_size), so the
\* call never fails on forward's range check, whatever vocabulary file the
\* tokenizer was loaded from.
C29_TokenIdsInsideVocabulary ==
    GeneratedOnReady =>
        /\ \A k \in 1..Len(lastGen.calls) :
              \A j \in 1..Len(lastGen.calls[k]) :
                 ~TokenOutOfRange(config, lastGen.calls[k][j])
        /\ \A j \in 1..Len(lastGen.kept) :
              (0 <= lastGen.kept[j] /\ lastGen.kept[j] < config.vocab_size)

---------------------------------------------------------------------------
(* BPETokenizer::load_merges and BPETokenizer::bpe_encode *)

\* A std::string is the sequence of its characters, a line of the merges
\* file is a string, and a symbol of bpe_encode is a string.

\* line.find(sub) != npos
Contains(line, sub) ==
    \E i \in 1..(Len(line) - Len(sub) + 1) : SubSeq(line, i, i + Len(sub) - 1) = sub

VersionMark == <<"#", "v", "e", "r", "s", "i", "o", "n">>

\* iss >> token: the fields of a line between its blanks.
RECURSIVE FieldsFrom(_, _, _, _)
FieldsFrom(line, i, current, done) ==
    IF i > Len(line)
    THEN (IF current = <<>> THEN done ELSE Append(done, current))
    ELSE IF line[i] = " "
    THEN FieldsFrom(line, i + 1, <<>>, IF current = <<>> THEN done ELSE Append(done, current))
    ELSE FieldsFrom(line, i + 1, Append(current, line[i]), done)

Fields(line) == FieldsFrom(line, 1, <<>>, <<>>)

\* pair_key = token1 + " " + token2
PairKey(first, second) == first \o <<" ">> \o second

\* The loop over the lines of load_merges: an empty line and a line of fewer
\* than two fields are passed over, a rule takes the next rank, and a rule
\* the map holds already is given the new rank.
RECURSIVE ReadMergeRules(_, _, _, _)
ReadMergeRules(lines, i, rank, ranks) ==
    IF i > Len(lines) THEN ranks
    ELSE IF lines[i] = <<>> \/ Len(Fields(lines[i])) < 2
    THEN ReadMergeRules(lines, i + 1, rank, ranks)
    ELSE LET key == PairKey(Fields(lines[i])[1], Fields(lines[i])[2]) IN
         ReadMergeRules(lines, i + 1, rank + 1,
                        [k \in DOMAIN ranks \cup {key} |-> IF k = key THEN rank ELSE ranks[k]])

NoRanks == [k \in {} |-> 0]

\* load_merges of a file that opens: bpe_ranks_ is cleared, a first line
\* that holds "#version" is skipped, every other line is read as a rule.
load_merges(lines) ==
    IF Len(lines) >= 1 /\ Contains(lines[1], VersionMark)
    THEN ReadMergeRules(lines, 2, 0, NoRanks)
    ELSE ReadMergeRules(lines, 1, 0, NoRanks)

\* The word split into its characters, and the adjacent pairs of a list of
\* symbols.
SplitChars(word) == [i \in 1..Len(word) |-> <<word[i]>>]
PairsOf(chars) == [i \in 1..(Len(chars) - 1) |-> <<chars[i], chars[i + 1]>>]

MaxInt32 == 2147483647

\* The index a search for the highest rank would stop at.
RECURSIVE HighestFrom(_, _, _, _, _)
HighestFrom(ranks, pairs, i, best_rank, best_idx) ==
    IF i > Len(pairs) THEN best_idx
    ELSE IF PairKey(pairs[i][1], pairs[i][2]) \in DOMAIN ranks
            /\ ranks[PairKey(pairs[i][1], pairs[i][2])] > best_rank
    THEN HighestFrom(ranks, pairs, i + 1, ranks[PairKey(pairs[i][1], pairs[i][2])], i)
    ELSE HighestFrom(ranks, pairs, i + 1, best_rank, best_idx)

HighestRankPair(ranks, pairs) == HighestFrom(ranks, pairs, 1, -1, Len(pairs) + 1)

\* The search of bpe_encode for the pair of the lowest rank: the first index
\* whose rank is below every rank before it, pairs.size() when no pair has
\* a rule (indices from 1 here, so Len(pairs) + 1).
RECURSIVE BestFrom(_, _, _, _, _)
BestFrom(ranks, pairs, i, best_rank, best_idx) ==
    IF i > Len(pairs) THEN best_idx
    ELSE IF PairKey(pairs[i][1], pairs[i][2]) \in DOMAIN ranks
            /\ ranks[PairKey(pairs[i][1], pairs[i][2])] < best_rank
    THEN BestFrom(ranks, pairs, i + 1, ranks[PairKey(pairs[i][1], pairs[i][2])], i)
    ELSE BestFrom(ranks, pairs, i + 1, best_rank, best_idx)

BestPair(ranks, pairs) == BestFrom(ranks, pairs, 1, MaxInt32, Len(pairs) + 1)

\* The pass that merges: from left to right every first followed by second
\* becomes one symbol, and the second of a merged pair is skipped.
RECURSIVE MergeFrom(_, _, _, _, _)
MergeFrom(chars, i, first, second, new_chars) ==
    IF i > Len(chars) THEN new_chars
    ELSE IF i < Len(chars) /\ chars[i] = first /\ chars[i + 1] = second
    THEN MergeFrom(chars, i + 2, first, second, Append(new_chars, first \o second))
    ELSE MergeFrom(chars, i + 1, first, second, Append(new_chars, chars[i]))

MergePair(chars, first, second) == MergeFrom(chars, 1, first, second, <<>>)

\* The main loop: it ends when no pair is left or no pair has a rule; every
\* pass is recorded.  The passes are counted down from a number no run of
\* the loop may exceed, and a run that needs more has not ended.
RECURSIVE BpeLoop(_, _, _, _)
BpeLoop(ranks, chars, steps, passes) ==
    IF PairsOf(chars) = <<>> \/ BestPair(ranks, PairsOf(chars)) = Len(PairsOf(chars)) + 1
    THEN [tokens |-> chars, steps |-> steps, ended |-> TRUE]
    ELSE IF passes = 0
    THEN [tokens |-> chars, steps |-> steps, ended |-> FALSE]
    ELSE LET best == PairsOf(chars)[BestPair(ranks, PairsOf(chars))] IN
         BpeLoop(ranks, MergePair(chars, best[1], best[2]),
                 Append(steps, [before |-> chars, first |-> best[1], second |-> best[2],
                                after |-> MergePair(chars, best[1], best[2])]),
                 passes - 1)

\* bpe_encode(word)
bpe_encode(ranks, word) ==
    IF word = <<>> THEN [tokens |-> <<>>, steps |-> <<>>, ended |-> TRUE]
    ELSE IF Len(SplitChars(word)) = 1
    THEN [tokens |-> SplitChars(word), steps |-> <<>>, ended |-> TRUE]
    ELSE BpeLoop(ranks, SplitChars(word), <<>>, Len(word))

\* load_merges on a new tokenizer; the call keeps bpe_ranks_.
LoadMerges(lines) ==
    /\ call = NoCall
    /\ call' = Called("load_merges", "ok", <<>>, load_merges(lines))
    /\ UNCHANGED <<model, matrix, tensor, disk, threads>>

\* bpe_encode on the tokenizer with the rules loaded.
BpeEncode(word) ==
    /\ call.op = "load_merges"
    /\ call' = Called("bpe_encode", "ok", [ranks |-> call.result, word |-> word],
                      bpe_encode(call.result, word))
    /\ UNCHANGED <<model, matrix, tensor, disk, threads>>

\* The lines a merges file is made of, the files, and the words.
MaxMergeLines == 3
MaxWordLen == 4
MergeLines ==
    {<<"a", " ", "b">>, <<"b", " ", "a">>, <<"a", " ", "a">>, <<"a", "b", " ", "a">>,
     <<"b">>, <<>>, VersionMark}
MergeFiles == UNION {[1..n -> MergeLines] : n \in 0..MaxMergeLines}
Words == UNION {[1..n -> {"a", "b"}] : n \in 0..MaxWordLen}

NextBpe ==
    \/ \E lines \in MergeFiles : LoadMerges(lines)
    \/ \E word \in Words : BpeEncode(word)

SpecBpe == Init /\ [][NextBpe]_vars

\* The characters of a list of symbols, in order.
RECURSIVE Joined(_)
Joined(symbols) == IF symbols = <<>> THEN <<>> ELSE Head(symbols) \o Joined(Tail(symbols))

\* The ranks of the adjacent pairs of chars that have a rule.
RanksIn(ranks, chars) ==
    {ranks[PairKey(chars[i], chars[i + 1])] :
        i \in {j \in 1..(Len(chars) - 1) : PairKey(chars[j], chars[j + 1]) \in DOMAIN ranks}}

\* C30: bpe_encode(word) ends; every merge step leaves fewer symbols than it
\* found; the pair a step merges is adjacent in the symbols it found, has a
\* rule, and no adjacent pair has a rule of lower rank; the returned tokens
\* joined are the word; the empty word gives the empty list, and a word none
\* of whose pairs has a rule gives its characters.
C30_BpeEncodeMergesLowestRank ==
    call.op = "bpe_encode" =>
        /\ call.result.ended
        /\ \A k \in 1..Len(call.result.steps) :
              LET step == call.result.steps[k] IN
              /\ Len(step.after) < Len(step.before)
              /\ \E i \in 1..(Len(step.before) - 1) :
                    step.before[i] = step.first /\ step.before[i + 1] = step.second
              /\ PairKey(step.first, step.second) \in DOMAIN call.arg.ranks
              /\ \A r \in RanksIn(call.arg.ranks, step.before) :
                    call.arg.ranks[PairKey(step.first, step.second)] <= r
              /\ \E i \in 1..Len(step.after) : step.after[i] = step.first \o step.second
              /\ Joined(step.after) = Joined(step.before)
        /\ Joined(call.result.tokens) = call.arg.word
        /\ RanksIn(call.arg.ranks, call.result.tokens) = {}
        /\ call.arg.word = <<>> => call.result.tokens = <<>>
        /\ RanksIn(call.arg.ranks, SplitChars(call.arg.word)) = {}
              => call.result.tokens = SplitChars(call.arg.word)

\* A word of which two steps were merged, the first of them with adjacent
\* pairs of two ranks to choose from.
C30_Witness ==
    /\ call.op = "bpe_encode"
    /\ Len(call.result.steps) >= 2
    /\ Cardinality(RanksIn(call.arg.ranks, call.result.steps[1].before)) >= 2
    /\ Len(call.result.tokens) >= 2

====
